-------------------------- MODULE OperationsProofs --------------------------
(***************************************************************************)
(* Proofs about eight operational components that share no state: what the *)
(* admission of the database file, the recovery of credentials, the outbox,*)
(* the journal behind the in-process API, the seals, the reconciliation of *)
(* a site, the access log and the binding registry promise holds for every *)
(* number of processes, files, credentials, rows, calls, stores, things,   *)
(* callers and registries.                                                 *)
(***************************************************************************)
EXTENDS StoreFile, Recovery, Outbox, ApiJournal, Seal, Semantics, Access, Binding,
        FiniteSetTheorems, SequenceTheorems, WellFoundedInduction, TLAPS

-----------------------------------------------------------------------------
(* The database file.                                                      *)

File == [identity : Nat, notes : Nat, links : Nat]
Where == [at : {"idle", "existing", "private", "publish", "unlink", "made", "reopened", "connected",
                "upgraded", "admitting", "admitted"},
          ino : Nat \cup {NoFile}, stamp : Nat \cup {NoFile}]
StoreHandle == [stamp : Nat \cup {NoFile}, identity : Nat \cup {NoFile}, handles : 0..MAX_CONNECTIONS]

\* The files: only the one that was there at first may lack migrations.
FilesMigrated ==
    /\ disk \in Seq(File)
    /\ \A i \in DOMAIN disk : disk[i].notes < 3 => i = 1
    /\ leaf # NoFile => leaf \in DOMAIN disk

\* Where a process is with a handle h: it has the file it needs, and what it was
\* admitted to is the store of its handle.
Placed(o, h) ==
    /\ o \in Where
    /\ o.ino # NoFile => o.ino \in DOMAIN disk
    /\ o.at \in {"publish", "unlink", "made", "reopened", "connected", "upgraded", "admitted"} => o.ino # NoFile
    /\ o.at \in {"admitting", "admitted"} => h.handles > 0
    /\ o.at = "admitted" => disk[o.ino].notes >= 3 /\ disk[o.ino].identity = h.identity

\* A handle is on the file at the path or on one that was taken away.
Held(h) ==
    /\ h \in StoreHandle
    /\ h.handles > 0 => h.identity # NoFile
    /\ h # NoStore => h.stamp # NoFile /\ (h.stamp = leaf \/ h.stamp \in replaced)

InPlace(p) == Placed(opener[p], handle[p]) /\ Held(handle[p])

StoreInv ==
    /\ FilesMigrated /\ misplaced = {}
    /\ opener \in [Openers -> Where] /\ handle \in [Openers -> StoreHandle]
    /\ \A p \in Openers : InPlace(p)

\* Files are only ever added, keep their identity and lose no migration; a file that
\* leaves the path is remembered.
DiskGrows ==
    /\ FilesMigrated'
    /\ DOMAIN disk \subseteq DOMAIN disk'
    /\ \A i \in DOMAIN disk : disk'[i].identity = disk[i].identity /\ disk'[i].notes >= disk[i].notes
    /\ replaced \subseteq replaced' /\ (leaf # NoFile => leaf' = leaf \/ leaf \in replaced')

\* What is true of a process that does not move.
LEMMA OthersPlaced ==
    ASSUME FilesMigrated, DiskGrows, NEW o, NEW h, Placed(o, h), Held(h)
    PROVE  Placed(o, h)' /\ Held(h)'
<1>1. Placed(o, h)'
    <2>1. o.ino # NoFile => o.ino \in DOMAIN disk'
        BY DEF Placed, DiskGrows
    <2>2. ASSUME o.at = "admitted" PROVE disk'[o.ino].notes >= 3 /\ disk'[o.ino].identity = h.identity
        <3>1. o.ino \in DOMAIN disk /\ o.ino \in DOMAIN disk'
            BY <2>1, <2>2 DEF Placed
        <3>2. disk[o.ino].notes \in Nat /\ disk'[o.ino].notes \in Nat
            <4>1. disk \in Seq(File) /\ disk' \in Seq(File)
                BY DEF DiskGrows, FilesMigrated
            <4>2. disk[o.ino] \in File /\ disk'[o.ino] \in File
                BY <3>1, <4>1
            <4> QED
                BY <4>2 DEF File
        <3>3. disk[o.ino].notes >= 3 /\ disk[o.ino].identity = h.identity
            BY <2>2 DEF Placed
        <3>4. disk'[o.ino].identity = disk[o.ino].identity /\ disk'[o.ino].notes >= disk[o.ino].notes
            BY <3>1 DEF DiskGrows
        <3> QED
            BY <3>2, <3>3, <3>4
    <2> QED
        BY <2>1, <2>2 DEF Placed
<1>2. Held(h)'
    BY DEF Held, DiskGrows
<1> QED
    BY <1>1, <1>2

\* A step of one process.
LEMMA OneMoves ==
    ASSUME StoreInv, DiskGrows, misplaced' = {}, NEW p \in Openers, NEW o, NEW h,
           opener' = [opener EXCEPT ![p] = o], handle' = [handle EXCEPT ![p] = h],
           Placed(o, h)', Held(h)'
    PROVE  StoreInv'
<1>1. FilesMigrated /\ opener \in [Openers -> Where] /\ handle \in [Openers -> StoreHandle]
    BY DEF StoreInv
<1>2. o \in Where /\ h \in StoreHandle
    BY DEF Placed, Held
<1>3. opener' \in [Openers -> Where] /\ handle' \in [Openers -> StoreHandle]
    BY <1>1, <1>2
<1>4. ASSUME NEW q \in Openers PROVE InPlace(q)'
    <2>1. CASE q = p
        <3>1. opener'[q] = o /\ handle'[q] = h
            BY <1>1, <2>1
        <3> QED
            BY <3>1 DEF InPlace, Placed, Held
    <2>2. CASE q # p
        <3>1. PICK a, b : a = opener[q] /\ b = handle[q]
            OBVIOUS
        <3>2. opener'[q] = a /\ handle'[q] = b
            BY <1>1, <2>2, <3>1
        <3>3. Placed(a, b) /\ Held(b)
            BY <3>1 DEF StoreInv, InPlace
        <3>4. Placed(a, b)' /\ Held(b)'
            BY <1>1, <3>3, OthersPlaced
        <3> QED
            BY <3>2, <3>4 DEF InPlace, Placed, Held
    <2> QED
        BY <2>1, <2>2
<1>5. FilesMigrated'
    BY DEF DiskGrows
<1> QED
    BY <1>3, <1>4, <1>5 DEF StoreInv

\* A step that leaves the files alone: other processes keep what they had.
LEMMA DiskStays ==
    ASSUME FilesMigrated, UNCHANGED <<disk, leaf, replaced>>
    PROVE  DiskGrows
<1>1. FilesMigrated'
    BY DEF FilesMigrated
<1>2. \A i \in DOMAIN disk : disk[i].notes >= disk[i].notes
    <2>1. \A i \in DOMAIN disk : disk[i] \in File
        BY DEF FilesMigrated
    <2> QED
        BY <2>1 DEF File
<1> QED
    BY <1>1, <1>2 DEF DiskGrows

\* A step that changes the links or the notes of one file, or unlinks the leaf.
LEMMA DiskRewritten ==
    ASSUME FilesMigrated, NEW i \in DOMAIN disk, NEW f \in File, disk' = [disk EXCEPT ![i] = f],
           f.identity = disk[i].identity, f.notes >= disk[i].notes,
           UNCHANGED replaced, leaf' = leaf \/ leaf = NoFile, leaf' # NoFile => leaf' \in DOMAIN disk
    PROVE  DiskGrows
<1>1. disk \in Seq(File) /\ disk' \in Seq(File) /\ DOMAIN disk' = DOMAIN disk
    BY DEF FilesMigrated
<1>2. /\ disk'[i] = f
      /\ \A k \in DOMAIN disk : k # i => disk'[k] = disk[k]
    BY <1>1
<1>3. ASSUME NEW k \in DOMAIN disk
      PROVE  /\ disk'[k].identity = disk[k].identity /\ disk'[k].notes >= disk[k].notes
             /\ disk'[k].notes < 3 => k = 1
    <2>1. disk[k] \in File /\ (disk[k].notes < 3 => k = 1)
        BY <1>1 DEF FilesMigrated
    <2>2. disk[k].notes \in Nat /\ f.notes \in Nat
        BY <2>1 DEF File
    <2>3. CASE k = i
        <3>1. disk'[k] = f /\ f.notes >= disk[k].notes
            BY <1>2, <2>3
        <3> QED
            BY <2>1, <2>2, <2>3, <3>1
    <2>4. CASE k # i
        <3>1. disk'[k] = disk[k] /\ disk[k].notes >= disk[k].notes
            BY <1>2, <2>2, <2>4
        <3> QED
            BY <2>1, <3>1
    <2> QED
        BY <2>3, <2>4
<1>4. FilesMigrated'
    <2>1. leaf' # NoFile => leaf' \in DOMAIN disk'
        BY <1>1
    <2> QED
        BY <1>1, <1>3, <2>1 DEF FilesMigrated
<1> QED
    BY <1>1, <1>3, <1>4 DEF DiskGrows

\* A step that creates a file, with every migration recorded.
LEMMA DiskAdded ==
    ASSUME FilesMigrated, NEW f \in File, f.notes >= 3, disk' = Append(disk, f),
           UNCHANGED replaced, UNCHANGED leaf
    PROVE  DiskGrows /\ Len(disk') \in DOMAIN disk' /\ Len(disk') \in Nat
<1>1. /\ disk \in Seq(File) /\ disk' \in Seq(File) /\ Len(disk) \in Nat /\ Len(disk') = Len(disk) + 1
      /\ DOMAIN disk = 1..Len(disk) /\ DOMAIN disk' = 1..(Len(disk) + 1)
      /\ \A k \in DOMAIN disk : disk'[k] = disk[k]
      /\ disk'[Len(disk) + 1] = f
    BY AppendProperties DEF FilesMigrated
<1>2. \A k \in DOMAIN disk : disk[k].notes \in Nat
    <2>1. \A k \in DOMAIN disk : disk[k] \in File
        BY <1>1
    <2> QED
        BY <2>1 DEF File
<1>3. f.notes \in Nat
    BY DEF File
<1>4. ASSUME NEW k \in DOMAIN disk', disk'[k].notes < 3 PROVE k = 1
    <2>1. k \in DOMAIN disk
        BY <1>1, <1>3, <1>4
    <2> QED
        BY <1>1, <1>4, <2>1 DEF FilesMigrated
<1>5. DOMAIN disk \subseteq DOMAIN disk'
    BY <1>1
<1>6. FilesMigrated'
    BY <1>1, <1>4, <1>5 DEF FilesMigrated
<1>7. \A k \in DOMAIN disk : disk'[k].notes >= disk[k].notes
    BY <1>1, <1>2
<1> QED
    BY <1>1, <1>5, <1>6, <1>7 DEF DiskGrows


\* A process goes on with the handle it has.
LEMMA Goes_on ==
    ASSUME StoreInv, DiskGrows, misplaced' = {}, UNCHANGED handle, NEW p \in Openers,
           NEW at, NEW ino \in Nat \cup {NoFile}, NEW stamp \in Nat \cup {NoFile},
           at \in {"idle", "existing", "private", "publish", "unlink", "made", "reopened", "connected",
                   "upgraded", "admitting", "admitted"},
           Goes(p, at, ino, stamp),
           ino # NoFile => ino \in DOMAIN disk',
           at \in {"publish", "unlink", "made", "reopened", "connected", "upgraded", "admitted"} => ino # NoFile,
           at \in {"admitting", "admitted"} => handle[p].handles > 0,
           at = "admitted" => disk'[ino].notes >= 3 /\ disk'[ino].identity = handle[p].identity
    PROVE  StoreInv'
<1>1. PICK o, h : o = [at |-> at, ino |-> ino, stamp |-> stamp] /\ h = handle[p]
    OBVIOUS
<1>2. o \in Where /\ o.at = at /\ o.ino = ino
    BY <1>1 DEF Where
<1>3. opener' = [opener EXCEPT ![p] = o]
    BY <1>1 DEF Goes
<1>4. handle' = [handle EXCEPT ![p] = h]
    BY <1>1 DEF StoreInv
<1>5. Placed(o, h)'
    BY <1>1, <1>2 DEF Placed
<1>6. Held(h)'
    BY <1>1, OthersPlaced DEF StoreInv, InPlace
<1> QED
    BY <1>3, <1>4, <1>5, <1>6, OneMoves

\* Opening the database.
LEMMA OpenSteps ==
    ASSUME StoreInv, NEW p \in Openers,
           \/ open(p) \/ initialize(p) \/ publish(p) \/ unlink(p)
           \/ existing(p) \/ upgrade(p) \/ upgrade_commit(p) \/ refuse(p)
    PROVE  StoreInv'
<1>1. /\ FilesMigrated /\ misplaced = {} /\ Placed(opener[p], handle[p]) /\ Held(handle[p])
      /\ disk \in Seq(File) /\ DOMAIN disk = 1..Len(disk) /\ Len(disk) \in Nat
      /\ opener[p] \in Where
    BY DEF StoreInv, InPlace, FilesMigrated
<1>2. PICK i : i = opener[p].ino
    OBVIOUS
<1>3. /\ i \in Nat \cup {NoFile} /\ opener[p].stamp \in Nat \cup {NoFile}
      /\ i # NoFile => i \in DOMAIN disk
      /\ opener[p].at \in {"publish", "unlink", "made", "reopened", "connected", "upgraded", "admitted"} =>
            i # NoFile
    BY <1>1, <1>2 DEF Placed, Where
<1>4. leaf # NoFile => leaf \in DOMAIN disk /\ leaf \in Nat
    BY <1>1 DEF FilesMigrated
<1>5. ASSUME NEW k \in DOMAIN disk
      PROVE  /\ disk[k] \in File /\ disk[k].notes \in Nat /\ disk[k].identity \in Nat
             /\ \A n \in Nat : [disk[k] EXCEPT !.links = n] \in File
    <2>1. disk[k] \in File
        BY <1>1
    <2> QED
        BY <2>1 DEF File
<1>6. ASSUME NEW k \in DOMAIN disk, NEW n \in Nat, disk' = [disk EXCEPT ![k].links = n], UNCHANGED replaced,
             leaf' = leaf \/ leaf = NoFile, leaf' # NoFile => leaf' \in DOMAIN disk
      PROVE  DiskGrows /\ DOMAIN disk' = DOMAIN disk
    <2>1. PICK f : f = [disk[k] EXCEPT !.links = n]
        OBVIOUS
    <2>2. f \in File /\ f.identity = disk[k].identity /\ f.notes = disk[k].notes /\ f.notes >= disk[k].notes
        BY <1>5, <2>1 DEF File
    <2>3. disk' = [disk EXCEPT ![k] = f]
        BY <1>6, <2>1
    <2>4. DiskGrows
        BY <1>1, <1>6, <2>2, <2>3, DiskRewritten
    <2> QED
        BY <1>1, <2>3, <2>4
<1>7. CASE open(p)
    <2>1. DiskGrows /\ misplaced' = {} /\ UNCHANGED handle
        BY <1>1, <1>7, DiskStays DEF open
    <2>2. Goes(p, "existing", NoFile, NoFile) \/ Goes(p, "private", NoFile, NoFile)
        BY <1>7 DEF open
    <2> QED
        BY <2>1, <2>2, Goes_on
<1>8. CASE initialize(p)
    <2>1. /\ disk' = Append(disk, Reserved) /\ Goes(p, "publish", Len(disk'), NoFile)
          /\ UNCHANGED <<leaf, handle, misplaced, replaced>>
        BY <1>8 DEF initialize
    <2>2. Reserved \in File /\ Reserved.notes >= 3
        <3>1. Len(disk) + 1 \in Nat
            BY <1>1
        <3> QED
            BY <3>1 DEF Reserved, File
    <2>3. DiskGrows /\ Len(disk') \in DOMAIN disk' /\ Len(disk') \in Nat
        BY <1>1, <2>1, <2>2, DiskAdded
    <2>4. Len(disk') # NoFile
        BY <2>3, StoreFileAssumption
    <2> QED
        BY <1>1, <2>1, <2>3, <2>4, Goes_on
<1>9. CASE publish(p)
    <2>1. /\ opener[p].at = "publish" /\ UNCHANGED <<handle, misplaced, replaced>>
          /\ i # NoFile /\ i \in DOMAIN disk
        BY <1>3, <1>9 DEF publish
    <2>2. CASE leaf = NoFile
        <3>1. leaf' = i /\ disk' = [disk EXCEPT ![i].links = 2] /\ Goes(p, "unlink", i, NoFile)
            BY <1>2, <1>9, <2>2 DEF publish
        <3>2. DiskGrows /\ DOMAIN disk' = DOMAIN disk
            BY <1>6, <2>1, <2>2, <3>1
        <3> QED
            BY <1>1, <1>3, <2>1, <3>1, <3>2, Goes_on
    <2>3. CASE leaf # NoFile
        <3>1. disk' = [disk EXCEPT ![i].links = 0] /\ Goes(p, "existing", NoFile, NoFile) /\ UNCHANGED leaf
            BY <1>2, <1>9, <2>3 DEF publish, Dropped
        <3>2. DiskGrows
            BY <1>4, <1>6, <2>1, <3>1
        <3> QED
            BY <1>1, <2>1, <3>1, <3>2, Goes_on
    <2> QED
        BY <2>2, <2>3
<1>10. CASE unlink(p)
    <2>1. /\ disk' = [disk EXCEPT ![i].links = 1] /\ Goes(p, "made", i, NoFile) /\ i \in DOMAIN disk /\ i # NoFile
          /\ UNCHANGED <<leaf, handle, misplaced, replaced>>
        BY <1>2, <1>3, <1>10 DEF unlink
    <2>2. DiskGrows /\ DOMAIN disk' = DOMAIN disk
        BY <1>4, <1>6, <2>1
    <2> QED
        BY <1>1, <1>3, <2>1, <2>2, Goes_on
<1>11. CASE existing(p)
    <2>1. /\ leaf # NoFile /\ Goes(p, "connected", leaf, leaf)
          /\ UNCHANGED <<disk, leaf, handle, misplaced, replaced>>
        BY <1>11 DEF existing, Stampable
    <2>2. DiskGrows
        BY <1>1, <2>1, DiskStays
    <2> QED
        BY <1>1, <1>4, <2>1, <2>2, Goes_on
<1>12. CASE upgrade(p)
    <2>1. /\ i # NoFile /\ Goes(p, "upgraded", i, opener[p].stamp)
          /\ UNCHANGED <<disk, leaf, handle, misplaced, replaced>>
        BY <1>2, <1>3, <1>12 DEF upgrade
    <2>2. DiskGrows
        BY <1>1, <2>1, DiskStays
    <2> QED
        BY <1>1, <1>3, <2>1, <2>2, Goes_on
<1>13. CASE upgrade_commit(p)
    <2>1. /\ i # NoFile /\ i \in DOMAIN disk /\ UNCHANGED <<leaf, handle, misplaced, replaced>>
          /\ disk' = [disk EXCEPT ![i].notes = IF @ < 3 THEN 3 ELSE @]
          /\ Goes(p, "reopened", i, NoFile) \/ Goes(p, "idle", NoFile, NoFile)
        BY <1>2, <1>3, <1>13 DEF upgrade_commit
    <2>2. PICK f : f = [disk[i] EXCEPT !.notes = IF @ < 3 THEN 3 ELSE @]
        OBVIOUS
    <2>3. f \in File /\ f.identity = disk[i].identity /\ f.notes >= disk[i].notes
        BY <1>5, <2>1, <2>2 DEF File
    <2>4. disk' = [disk EXCEPT ![i] = f]
        BY <2>1, <2>2
    <2>5. DiskGrows /\ DOMAIN disk' = DOMAIN disk
        BY <1>1, <1>4, <2>1, <2>3, <2>4, DiskRewritten
    <2> QED
        BY <1>1, <1>3, <2>1, <2>5, Goes_on
<1>14. CASE refuse(p)
    <2>1. /\ Goes(p, "idle", NoFile, NoFile) /\ UNCHANGED <<leaf, handle, misplaced, replaced>>
          /\ \/ disk' = disk
             \/ i \in DOMAIN disk /\ disk' = [disk EXCEPT ![i].links = 0]
        BY <1>2, <1>3, <1>14 DEF refuse, Dropped
    <2>2. DiskGrows
        BY <1>1, <1>4, <1>6, <2>1, DiskStays
    <2> QED
        BY <1>1, <2>1, <2>2, Goes_on
<1> QED
    BY <1>7, <1>8, <1>9, <1>10, <1>11, <1>12, <1>13, <1>14


\* Admission of a handle to the store it was opened on, and the handles.
LEMMA AdmitSteps ==
    ASSUME StoreInv, NEW p \in Openers,
           \/ make_store(p) \/ admit_once(p) \/ connect(p) \/ begin(p) \/ commit(p)
           \/ try_clone(p) \/ drop(p) \/ Dies(p)
    PROVE  StoreInv'
<1>1. /\ FilesMigrated /\ misplaced = {} /\ Placed(opener[p], handle[p]) /\ Held(handle[p])
      /\ disk \in Seq(File) /\ DOMAIN disk = 1..Len(disk) /\ Len(disk) \in Nat
      /\ opener[p] \in Where /\ handle[p] \in StoreHandle
      /\ opener \in [Openers -> Where] /\ handle \in [Openers -> StoreHandle]
    BY DEF StoreInv, InPlace, FilesMigrated
<1>2. PICK o, h, i : o = opener[p] /\ h = handle[p] /\ i = opener[p].ino
    OBVIOUS
<1>3. /\ i \in Nat \cup {NoFile}
      /\ i # NoFile => i \in DOMAIN disk
      /\ o.at \in {"publish", "unlink", "made", "reopened", "connected", "upgraded", "admitted"} => i # NoFile
      /\ o.at \in {"admitting", "admitted"} => h.handles > 0
      /\ o.at = "admitted" => disk[i].notes >= 3 /\ disk[i].identity = h.identity
    BY <1>1, <1>2 DEF Placed, Where
<1>4. leaf # NoFile => leaf \in DOMAIN disk /\ leaf \in Nat
    BY <1>1 DEF FilesMigrated
<1>5. \A k \in DOMAIN disk : disk[k].notes \in Nat /\ disk[k].identity \in Nat
    <2>1. \A k \in DOMAIN disk : disk[k] \in File
        BY <1>1
    <2> QED
        BY <2>1 DEF File
<1>6. /\ h.handles \in 0..MAX_CONNECTIONS /\ h.identity \in Nat \cup {NoFile} /\ h.stamp \in Nat \cup {NoFile}
      /\ MAX_CONNECTIONS \in Nat \ {0} /\ NoFile \notin Nat
      /\ h.handles > 0 => h.identity # NoFile /\ h # NoStore
      /\ h # NoStore => h.stamp # NoFile /\ (h.stamp = leaf \/ h.stamp \in replaced)
    BY <1>1, <1>2, StoreFileAssumption DEF StoreHandle, Held, NoStore
<1>7. /\ NoStore \in StoreHandle /\ NoStore.handles = 0 /\ Idle \in Where /\ Idle.ino = NoFile /\ Idle.at = "idle"
    BY <1>6 DEF NoStore, StoreHandle, Idle, Where
<1>8. UNCHANGED <<disk, leaf, replaced>> => DiskGrows
    BY <1>1, DiskStays
<1>9. CASE make_store(p)
    <2>1. /\ Goes(p, "idle", NoFile, NoFile) /\ UNCHANGED <<disk, leaf, misplaced, replaced>>
          /\ i # NoFile /\ i \in DOMAIN disk
          /\ \/ UNCHANGED handle
             \/ /\ leaf # NoFile
                /\ handle' = [handle EXCEPT ![p] = [stamp |-> leaf, handles |-> 1, identity |-> disk[i].identity]]
        BY <1>2, <1>3, <1>9 DEF make_store, Stampable
    <2>2. CASE UNCHANGED handle
        BY <1>1, <1>8, <2>1, <2>2, Goes_on
    <2>3. CASE /\ leaf # NoFile
               /\ handle' = [handle EXCEPT ![p] = [stamp |-> leaf, handles |-> 1, identity |-> disk[i].identity]]
        <3>1. PICK a, b : /\ a = [at |-> "idle", ino |-> NoFile, stamp |-> NoFile]
                          /\ b = [stamp |-> leaf, handles |-> 1, identity |-> disk[i].identity]
            OBVIOUS
        <3>2. a \in Where /\ a.at = "idle" /\ a.ino = NoFile
            BY <3>1 DEF Where
        <3>3. b \in StoreHandle /\ b.identity # NoFile /\ b.stamp = leaf
            <4>1. disk[i].identity \in Nat /\ leaf \in Nat /\ 1 \in 0..MAX_CONNECTIONS
                BY <1>4, <1>5, <1>6, <2>1, <2>3
            <4> QED
                BY <1>6, <3>1, <4>1 DEF StoreHandle
        <3>4. Placed(a, b)' /\ Held(b)'
            BY <2>1, <2>3, <3>2, <3>3 DEF Placed, Held
        <3>5. opener' = [opener EXCEPT ![p] = a] /\ handle' = [handle EXCEPT ![p] = b]
            BY <2>1, <2>3, <3>1 DEF Goes
        <3> QED
            BY <1>1, <1>8, <2>1, <3>4, <3>5, OneMoves
    <2> QED
        BY <2>1, <2>2, <2>3
<1>10. CASE admit_once(p)
    <2>1. /\ Goes(p, "admitting", NoFile, NoFile) /\ UNCHANGED <<disk, leaf, handle, misplaced, replaced>>
          /\ handle[p].handles > 0
        BY <1>10 DEF admit_once
    <2> QED
        BY <1>1, <1>8, <2>1, Goes_on
<1>11. CASE connect(p)
    <2>1. /\ Goes(p, "admitting", leaf, NoFile) /\ UNCHANGED <<disk, leaf, handle, misplaced, replaced>>
          /\ handle[p].handles > 0 /\ leaf # NoFile
        BY <1>2, <1>3, <1>11 DEF connect
    <2> QED
        BY <1>1, <1>4, <1>8, <2>1, Goes_on
<1>12. CASE begin(p)
    <2>1. /\ Goes(p, "admitted", i, NoFile) /\ UNCHANGED <<disk, leaf, handle, misplaced, replaced>>
          /\ o.at = "admitting" /\ i # NoFile /\ validate(i) = h.identity
        BY <1>2, <1>12 DEF begin
    <2>2. h.handles > 0 /\ h.identity # NoFile
        BY <1>3, <1>6, <2>1
    <2>3. disk[i].notes >= 3 /\ disk[i].identity = h.identity
        BY <2>1, <2>2 DEF validate
    <2> QED
        BY <1>1, <1>2, <1>3, <1>8, <2>1, <2>2, <2>3, Goes_on
<1>13. CASE commit(p)
    <2>1. /\ Goes(p, "idle", NoFile, NoFile) /\ UNCHANGED <<disk, leaf, handle, replaced>>
          /\ o.at = "admitted"
          /\ misplaced' = IF disk[i].identity = h.identity THEN misplaced ELSE misplaced \cup {p}
        BY <1>2, <1>13 DEF commit
    <2>2. misplaced' = {}
        BY <1>1, <1>3, <2>1
    <2> QED
        BY <1>8, <2>1, <2>2, Goes_on
<1>14. CASE try_clone(p)
    <2>1. PICK b : b = [h EXCEPT !.handles = @ + 1]
        OBVIOUS
    <2>2. /\ h.handles \in 1..(MAX_CONNECTIONS - 1) /\ handle' = [handle EXCEPT ![p] = b]
          /\ UNCHANGED <<disk, leaf, opener, misplaced, replaced>>
        BY <1>2, <1>14, <2>1 DEF try_clone
    <2>3. h.handles + 1 \in 0..MAX_CONNECTIONS /\ h.handles > 0 /\ h.handles + 1 > 0
        BY <1>6, <2>2
    <2>4. b \in StoreHandle /\ b.handles = h.handles + 1 /\ b.identity = h.identity /\ b.stamp = h.stamp
        BY <1>1, <1>2, <2>1, <2>3 DEF StoreHandle
    <2>5. opener' = [opener EXCEPT ![p] = o]
        BY <1>1, <1>2, <2>2
    <2>6. Placed(o, b)'
        BY <1>1, <1>2, <2>2, <2>3, <2>4 DEF Placed
    <2>7. Held(b)'
        BY <1>6, <2>2, <2>3, <2>4 DEF Held
    <2> QED
        BY <1>1, <1>8, <2>2, <2>5, <2>6, <2>7, OneMoves
<1>15. CASE drop(p)
    <2>1. /\ h.handles > 0 /\ o = Idle
          /\ handle' = IF handle[p].handles = 1 THEN [handle EXCEPT ![p] = NoStore]
                                                ELSE [handle EXCEPT ![p].handles = @ - 1]
          /\ UNCHANGED <<disk, leaf, opener, misplaced, replaced>>
        BY <1>2, <1>15 DEF drop
    <2>2. PICK b : b = IF h.handles = 1 THEN NoStore ELSE [h EXCEPT !.handles = @ - 1]
        OBVIOUS
    <2>3. handle' = [handle EXCEPT ![p] = b] /\ opener' = [opener EXCEPT ![p] = o]
        BY <1>1, <1>2, <2>1, <2>2
    <2>4. Held(b)'
        <3>1. CASE h.handles = 1
            BY <1>7, <2>2, <3>1 DEF Held
        <3>2. CASE h.handles # 1
            <4>1. h.handles - 1 \in 0..MAX_CONNECTIONS /\ b = [h EXCEPT !.handles = h.handles - 1]
                BY <1>6, <2>1, <2>2, <3>2
            <4>2. b \in StoreHandle /\ b.identity = h.identity /\ b.stamp = h.stamp
                BY <1>1, <1>2, <4>1 DEF StoreHandle
            <4> QED
                BY <1>6, <2>1, <4>2 DEF Held
        <3> QED
            BY <3>1, <3>2
    <2>5. Placed(o, b)'
        BY <1>7, <2>1 DEF Placed
    <2> QED
        BY <1>1, <1>8, <2>1, <2>3, <2>4, <2>5, OneMoves
<1>16. CASE Dies(p)
    <2>1. /\ opener' = [opener EXCEPT ![p] = Idle] /\ handle' = [handle EXCEPT ![p] = NoStore]
          /\ UNCHANGED <<disk, leaf, misplaced, replaced>>
        BY <1>16 DEF Dies
    <2>2. Placed(Idle, NoStore)' /\ Held(NoStore)'
        BY <1>7 DEF Placed, Held
    <2> QED
        BY <1>1, <1>8, <2>1, <2>2, OneMoves
<1> QED
    BY <1>9, <1>10, <1>11, <1>12, <1>13, <1>14, <1>15, <1>16

\* The operator replaces the file at the path, or nothing happens.
LEMMA ReplaceStep ==
    ASSUME StoreInv, Replace \/ UNCHANGED storeVars
    PROVE  StoreInv'
<1>1. /\ FilesMigrated /\ misplaced = {} /\ disk \in Seq(File) /\ DOMAIN disk = 1..Len(disk) /\ Len(disk) \in Nat
    BY DEF StoreInv, FilesMigrated
<1>2. ASSUME DiskGrows, UNCHANGED <<opener, handle, misplaced>> PROVE StoreInv'
    <2>1. ASSUME NEW q \in Openers PROVE InPlace(q)'
        <3>1. PICK a, b : a = opener[q] /\ b = handle[q]
            OBVIOUS
        <3>2. Placed(a, b) /\ Held(b)
            BY <3>1 DEF StoreInv, InPlace
        <3>3. Placed(a, b)' /\ Held(b)'
            BY <1>1, <1>2, <3>2, OthersPlaced
        <3> QED
            BY <1>2, <3>1, <3>3 DEF InPlace, Placed, Held
    <2> QED
        BY <1>1, <1>2, <2>1 DEF StoreInv, DiskGrows
<1>3. CASE Replace
    <2>1. /\ leaf # NoFile /\ leaf \in DOMAIN disk /\ UNCHANGED <<opener, handle, misplaced>>
          /\ replaced' = replaced \cup {leaf}
        BY <1>1, <1>3 DEF Replace, FilesMigrated
    <2>2. PICK d, f : d = [disk EXCEPT ![leaf].links = 0] /\ f = [disk[leaf] EXCEPT !.links = 0]
        OBVIOUS
    <2>3. /\ d \in Seq(File) /\ Len(d) = Len(disk) /\ DOMAIN d = DOMAIN disk
          /\ \A k \in DOMAIN disk : /\ d[k] \in File /\ d[k].identity = disk[k].identity
                                    /\ d[k].notes = disk[k].notes /\ d[k].notes \in Nat
        <3>1. disk[leaf] \in File
            BY <1>1, <2>1
        <3>2. f \in File /\ f.identity = disk[leaf].identity /\ f.notes = disk[leaf].notes
            BY <2>2, <3>1 DEF File
        <3>3. d = [disk EXCEPT ![leaf] = f]
            BY <1>1, <2>1, <2>2
        <3>4. d \in Seq(File) /\ Len(d) = Len(disk) /\ DOMAIN d = DOMAIN disk
            BY <1>1, <2>1, <3>2, <3>3
        <3>5. \A k \in DOMAIN disk : d[k] = f \/ d[k] = disk[k]
            BY <1>1, <3>3
        <3>6. ASSUME NEW k \in DOMAIN disk
              PROVE  /\ d[k] \in File /\ d[k].identity = disk[k].identity
                     /\ d[k].notes = disk[k].notes /\ d[k].notes \in Nat
            <4>1. d[k] \in File
                BY <3>4
            <4>2. d[k].notes \in Nat
                BY <4>1 DEF File
            <4>3. d[k].identity = disk[k].identity /\ d[k].notes = disk[k].notes
                BY <1>1, <3>2, <3>3
            <4> QED
                BY <4>1, <4>2, <4>3
        <3> QED
            BY <3>4, <3>6
    <2>4. \A k \in DOMAIN d : d[k].notes < 3 => k = 1
        BY <1>1, <2>3 DEF FilesMigrated
    <2>5. CASE /\ disk' = Append(d, [identity |-> Len(disk) + 1, notes |-> 3, links |-> 1])
               /\ leaf' = Len(disk')
        <3>1. PICK g : g = [identity |-> Len(disk) + 1, notes |-> 3, links |-> 1]
            OBVIOUS
        <3>2. g \in File /\ g.notes = 3
            <4>1. Len(disk) + 1 \in Nat
                BY <1>1
            <4> QED
                BY <3>1, <4>1 DEF File
        <3>3. /\ disk' \in Seq(File) /\ Len(disk') = Len(d) + 1 /\ disk'[Len(d) + 1] = g
              /\ \A k \in 1..Len(d) : disk'[k] = d[k]
            BY <2>3, <2>5, <3>1, <3>2, AppendProperties
        <3>4. /\ DOMAIN disk' = 1..(Len(disk) + 1) /\ DOMAIN disk \subseteq DOMAIN disk' /\ leaf' \in DOMAIN disk'
            BY <1>1, <2>3, <2>5, <3>3
        <3>5. ASSUME NEW k \in DOMAIN disk', disk'[k].notes < 3 PROVE k = 1
            <4>1. k \in DOMAIN disk
                BY <1>1, <2>3, <3>2, <3>3, <3>4, <3>5
            <4> QED
                BY <1>1, <2>3, <2>4, <3>3, <3>5, <4>1
        <3>6. FilesMigrated'
            BY <3>3, <3>4, <3>5 DEF FilesMigrated
        <3>7. \A k \in DOMAIN disk : disk'[k].identity = disk[k].identity /\ disk'[k].notes >= disk[k].notes
            BY <1>1, <2>3, <3>3
        <3> QED
            BY <1>2, <2>1, <3>4, <3>6, <3>7 DEF DiskGrows
    <2>6. CASE disk' = d /\ leaf' = NoFile
        <3>1. FilesMigrated'
            BY <2>3, <2>4, <2>6 DEF FilesMigrated
        <3>2. \A k \in DOMAIN disk : disk'[k].identity = disk[k].identity /\ disk'[k].notes >= disk[k].notes
            BY <2>3, <2>6
        <3> QED
            BY <1>2, <2>1, <2>3, <2>6, <3>1, <3>2 DEF DiskGrows
    <2> QED
        BY <1>3, <2>2, <2>5, <2>6 DEF Replace
<1>4. CASE UNCHANGED storeVars
    <2>1. UNCHANGED <<disk, leaf, replaced, opener, handle, misplaced>>
        BY <1>4 DEF storeVars
    <2> QED
        BY <1>1, <1>2, <2>1, DiskStays
<1> QED
    BY <1>3, <1>4


\* No database, or a predecessor's.
LEMMA StoreStarts ==
    ASSUME StoreInit
    PROVE  StoreInv
<1>1. PICK old \in {0, 1, 2} :
          /\ disk = IF old = 0 THEN <<>> ELSE <<[identity |-> 1, notes |-> old, links |-> 1]>>
          /\ leaf = IF old = 0 THEN NoFile ELSE 1
    BY DEF StoreInit
<1>2. FilesMigrated
    <2>1. CASE old = 0
        <3>1. disk = <<>> /\ leaf = NoFile
            BY <1>1, <2>1
        <3> QED
            BY <3>1 DEF FilesMigrated
    <2>2. CASE old # 0
        <3>1. PICK f : f = [identity |-> 1, notes |-> old, links |-> 1]
            OBVIOUS
        <3>2. f \in File
            BY <3>1 DEF File
        <3>3. disk = <<f>> /\ leaf = 1
            BY <1>1, <2>2, <3>1
        <3>4. disk \in Seq(File) /\ DOMAIN disk = {1}
            BY <3>2, <3>3
        <3> QED
            BY <3>3, <3>4 DEF FilesMigrated
    <2> QED
        BY <2>1, <2>2
<1>3. /\ opener = [p \in Openers |-> Idle] /\ handle = [p \in Openers |-> NoStore] /\ misplaced = {}
    BY DEF StoreInit
<1>4. MAX_CONNECTIONS \in Nat /\ 0 \in 0..MAX_CONNECTIONS
    BY StoreFileAssumption
<1>5. /\ Idle \in Where /\ NoStore \in StoreHandle /\ NoStore.handles = 0 /\ Idle.at = "idle" /\ Idle.ino = NoFile
    BY <1>4 DEF Idle, Where, NoStore, StoreHandle
<1>6. Placed(Idle, NoStore) /\ Held(NoStore)
    BY <1>5 DEF Placed, Held
<1> QED
    BY <1>2, <1>3, <1>5, <1>6 DEF StoreInv, InPlace

\* Every step keeps it.
LEMMA StoreSteps ==
    ASSUME StoreInv, [StoreNext]_storeVars
    PROVE  StoreInv'
<1>1. ASSUME NEW p \in Openers,
             \/ open(p) \/ initialize(p) \/ publish(p) \/ unlink(p)
             \/ existing(p) \/ upgrade(p) \/ upgrade_commit(p) \/ refuse(p)
      PROVE  StoreInv'
    BY <1>1, OpenSteps
<1>2. ASSUME NEW p \in Openers,
             \/ make_store(p) \/ admit_once(p) \/ connect(p) \/ begin(p) \/ commit(p)
             \/ try_clone(p) \/ drop(p) \/ Dies(p)
      PROVE  StoreInv'
    BY <1>2, AdmitSteps
<1>3. CASE Replace \/ UNCHANGED storeVars
    BY <1>3, ReplaceStep
<1> QED
    BY <1>1, <1>2, <1>3 DEF StoreNext

\* Whatever an operator puts at the path and however many processes create, open and
\* clone, no transaction is committed into another store than the one its handle was
\* opened on, and every handle is on the file at the path or on one that was taken away
\* (open, existing, admit_once).
THEOREM OneStorePerHandle == StoreSpec => []OneStore
<1>1. StoreInit => StoreInv
    BY StoreStarts
<1>2. StoreInv /\ [StoreNext]_storeVars => StoreInv'
    BY StoreSteps
<1>3. StoreInv => OneStore
    <2> SUFFICES ASSUME StoreInv PROVE OneStore
        OBVIOUS
    <2>1. ASSUME NEW p \in Openers
          PROVE  /\ handle[p] # NoStore => handle[p].stamp = leaf \/ handle[p].stamp \in replaced
                 /\ opener[p].at = "admitted" => disk[opener[p].ino].notes >= 3
                 /\ handle[p].handles <= MAX_CONNECTIONS
        <3>1. Placed(opener[p], handle[p]) /\ Held(handle[p])
            BY DEF StoreInv, InPlace
        <3>2. handle[p].handles \in 0..MAX_CONNECTIONS /\ MAX_CONNECTIONS \in Nat
            BY <3>1, StoreFileAssumption DEF Held, StoreHandle
        <3> QED
            BY <3>1, <3>2 DEF Placed, Held
    <2>2. leaf # NoFile /\ disk[leaf].notes < 3 => leaf = 1
        BY DEF StoreInv, FilesMigrated
    <2> QED
        BY <2>1, <2>2 DEF OneStore, StoreInv
<1> QED
    BY <1>1, <1>2, <1>3, PTL DEF StoreSpec


-----------------------------------------------------------------------------
(* Recovery of credentials.                                                *)

Names == {Account, "root"} \cup {c.new.cap : c \in Recoveries} \cup {c.current.cap : c \in Recoveries}
            \cup {s.cap : s \in Strangers}
Numbers == {0} \cup {c.new.key : c \in Recoveries} \cup {c.current.key : c \in Recoveries}
              \cup {s.key : s \in Strangers}
LedgerRow == [row : {"issue", "revoke"}, cap : Names, key : Numbers,
              shape : {"administrator", "recovery", "publisher", "none"} \cup {s.shape : s \in Strangers},
              why : Recovering \cup {"bootstrap", "stranger", "none"}]
AtDesk == [at : {"idle", "remember", "look", "found", "dispatch", "commit"},
           call : Recoveries \cup {NoIntent}, done : BOOLEAN, read : Nat]

KeyRevoked(cap, i) == is_revoked([cap |-> cap, key |-> ledger[i].key])

\* The access history: what a recovery issued is what its operation journaled, and
\* that only once; of the keys of a capability all but the newest are revoked.
LedgerLine ==
    /\ ledger \in Seq(LedgerRow)
    /\ \A i \in DOMAIN ledger : ledger[i].row = "issue" /\ ledger[i].why \in Recovering =>
          /\ intended[ledger[i].why] \in Recoveries
          /\ intended[ledger[i].why].new = [cap |-> ledger[i].cap, key |-> ledger[i].key]
    /\ \A op \in Recovering : \A i, k \in IssuedBy(op) : i = k
    /\ \A cap \in Names : \A i, k \in IssuesOf(cap) :
          i < k => KeyRevoked(cap, i)

\* What a desk has found out: its call is journaled, the credential it found is known,
\* and as long as the history is the one it read, what it is about to issue is new.
DeskSound(x) ==
    /\ x.at # "idle" =>
          /\ x.call \in Recoveries
          /\ x.call.kind = "rotate" /\ ~x.done => x.call.current.cap = Account
          /\ x.done => IssuedBy(x.call.op) # {}
    /\ x.at \in {"look", "found", "dispatch", "commit"} => intended[x.call.op] = x.call
    /\ x.at \in {"found", "dispatch", "commit"} => ~x.done
    /\ x.at = "found" => Known(x.call.new.cap)
    /\ x.at = "commit" =>
          /\ x.read <= Len(ledger)
          /\ x.read = Len(ledger) /\ x.call.kind # "rotate" => ~Known(x.call.new.cap)
          /\ x.read = Len(ledger) /\ x.call.kind = "rotate" =>
                authenticates(x.call.current) /\ \A i \in IssuesOf(Account) : ledger[i].key # x.call.new.key

\* A credential that was answered was issued by its operation, as journaled.
GivenSound(a) ==
    /\ IssuedBy(a.op) # {} /\ a.op \in Recovering
    /\ intended[a.op] \in Recoveries /\ intended[a.op].new = a.new

RecoveryInv ==
    /\ LedgerLine
    /\ intended \in [Recovering -> Recoveries \cup {NoIntent}]
    /\ desk \in [Desks -> AtDesk]
    /\ \A d \in Desks : DeskSound(desk[d])
    /\ \A a \in given : GivenSound(a)

\* A set of positions has a last one.
LEMMA LastExists ==
    ASSUME NEW n \in Nat, NEW S \in SUBSET (1..n), S # {}
    PROVE  \E m \in S : \A k \in S : k <= m
<1> DEFINE Above == {k..n : k \in S}
<1>1. IsFiniteSet(1..n) /\ IsWellFoundedOn(StrictSubsetOrdering(1..n), SUBSET (1..n))
    <2>1. IsFiniteSet(1..n)
        BY FS_Interval
    <2>2. IsWellFoundedOn(StrictSubsetOrdering(1..n), FiniteSubsetsOf(1..n))
        BY FS_StrictSubsetOrderingWellFounded
    <2>3. FiniteSubsetsOf(1..n) = SUBSET (1..n)
        BY <2>1, FS_FiniteSubsetsOfFinite
    <2> QED
        BY <2>1, <2>2, <2>3
<1>2. Above \subseteq SUBSET (1..n) /\ Above # {}
    <2>1. ASSUME NEW k \in S PROVE k..n \in SUBSET (1..n)
        OBVIOUS
    <2>2. PICK k \in S : TRUE
        OBVIOUS
    <2>3. k..n \in Above
        OBVIOUS
    <2> QED
        BY <2>1, <2>3
<1>3. PICK B \in Above : \A C \in Above : ~(<<C, B>> \in StrictSubsetOrdering(1..n))
    BY <1>1, <1>2, WFMin
<1>4. PICK m \in S : B = m..n
    OBVIOUS
<1>5. ASSUME NEW k \in S PROVE k <= m
    <2>1. SUFFICES ASSUME m < k PROVE FALSE
        OBVIOUS
    <2>2. k..n \in Above /\ k..n \subseteq m..n /\ m \in m..n /\ m \notin k..n
        BY <2>1
    <2>3. <<k..n, B>> \in StrictSubsetOrdering(1..n)
        BY <1>2, <1>4, <2>2 DEF StrictSubsetOrdering
    <2> QED
        BY <1>3, <2>2, <2>3
<1> QED
    BY <1>4, <1>5

\* The newest issue of a capability.
LEMMA NewestIssue ==
    ASSUME LedgerLine, NEW cap, Known(cap)
    PROVE  \E m \in IssuesOf(cap) : newest(cap) = ledger[m] /\ \A k \in IssuesOf(cap) : k <= m
<1>1. PICK n : n = Len(ledger)
    OBVIOUS
<1>2. n \in Nat /\ DOMAIN ledger = 1..n
    BY <1>1 DEF LedgerLine
<1>3. PICK S : S = IssuesOf(cap)
    OBVIOUS
<1>4. S \in SUBSET (1..n) /\ S # {}
    BY <1>2, <1>3 DEF IssuesOf, Known
<1>5. \E m \in S : \A k \in S : k <= m
    BY <1>2, <1>4, LastExists
<1>6. PICK m : m = CHOOSE i \in S : \A k \in S : k <= i
    OBVIOUS
<1>7. m \in S /\ \A k \in S : k <= m
    BY <1>5, <1>6
<1>8. newest(cap) = ledger[m]
    BY <1>3, <1>6 DEF newest
<1> QED
    BY <1>3, <1>7, <1>8

\* What is left of a history that rows are added to.
LEMMA LedgerGrows ==
    ASSUME LedgerLine, NEW rows \in Seq(LedgerRow), ledger' = ledger \o rows
    PROVE  /\ ledger' \in Seq(LedgerRow) /\ Len(ledger) \in Nat /\ Len(rows) \in Nat
           /\ Len(ledger') = Len(ledger) + Len(rows)
           /\ DOMAIN ledger = 1..Len(ledger) /\ DOMAIN ledger' = 1..(Len(ledger) + Len(rows))
           /\ \A i \in DOMAIN ledger : ledger'[i] = ledger[i]
           /\ \A k \in 1..Len(rows) : ledger'[Len(ledger) + k] = rows[k]
           /\ \A i \in DOMAIN ledger' : i \in DOMAIN ledger \/ \E k \in 1..Len(rows) : i = Len(ledger) + k
           /\ \A c : is_revoked(c) => is_revoked(c)'
           /\ \A cap : IssuesOf(cap) \subseteq IssuesOf(cap)'
           /\ \A op : IssuedBy(op) \subseteq IssuedBy(op)'
<1>1. ledger \in Seq(LedgerRow)
    BY DEF LedgerLine
<1>2. /\ ledger' \in Seq(LedgerRow) /\ Len(ledger) \in Nat /\ Len(rows) \in Nat
      /\ Len(ledger') = Len(ledger) + Len(rows)
      /\ DOMAIN ledger = 1..Len(ledger) /\ DOMAIN ledger' = 1..(Len(ledger) + Len(rows))
      /\ \A i \in 1..(Len(ledger) + Len(rows)) :
            ledger'[i] = IF i <= Len(ledger) THEN ledger[i] ELSE rows[i - Len(ledger)]
    BY <1>1, ConcatProperties
<1>3. \A i \in DOMAIN ledger : ledger'[i] = ledger[i]
    BY <1>2
<1>4. ASSUME NEW k \in 1..Len(rows) PROVE ledger'[Len(ledger) + k] = rows[k]
    <2>1. /\ Len(ledger) + k \in 1..(Len(ledger) + Len(rows)) /\ ~(Len(ledger) + k <= Len(ledger))
          /\ Len(ledger) + k - Len(ledger) = k
        BY <1>2
    <2> QED
        BY <1>2, <2>1
<1>5. ASSUME NEW i \in DOMAIN ledger', i \notin DOMAIN ledger PROVE \E k \in 1..Len(rows) : i = Len(ledger) + k
    <2>1. i - Len(ledger) \in 1..Len(rows) /\ i = Len(ledger) + (i - Len(ledger))
        BY <1>2, <1>5
    <2> QED
        BY <2>1
<1>6. DOMAIN ledger \subseteq DOMAIN ledger'
    BY <1>2
<1>7. /\ \A c : is_revoked(c) => is_revoked(c)'
      /\ \A cap : IssuesOf(cap) \subseteq IssuesOf(cap)'
      /\ \A op : IssuedBy(op) \subseteq IssuedBy(op)'
    BY <1>3, <1>6 DEF is_revoked, IssuesOf, IssuedBy
<1> QED
    BY <1>2, <1>3, <1>4, <1>5, <1>7


\* Rows are added of which the last one is an issue at most: to a capability whose
\* keys are all revoked, and of an operation that has issued nothing.
LEMMA LineGrows ==
    ASSUME LedgerLine, NEW rows \in Seq(LedgerRow), Len(rows) > 0, ledger' = ledger \o rows, UNCHANGED intended,
           \A k \in 1..Len(rows) : rows[k].row = "revoke" \/ k = Len(rows),
           NEW r, r = rows[Len(rows)],
           r.row = "issue" /\ r.why \in Recovering =>
              /\ intended[r.why] \in Recoveries /\ intended[r.why].new = [cap |-> r.cap, key |-> r.key]
              /\ IssuedBy(r.why) = {},
           r.row = "issue" => \A i \in IssuesOf(r.cap) : KeyRevoked(r.cap, i)'
    PROVE  LedgerLine'
<1>1. /\ ledger' \in Seq(LedgerRow) /\ Len(ledger) \in Nat /\ Len(rows) \in Nat
      /\ Len(ledger') = Len(ledger) + Len(rows)
      /\ DOMAIN ledger = 1..Len(ledger) /\ DOMAIN ledger' = 1..(Len(ledger) + Len(rows))
      /\ \A i \in DOMAIN ledger : ledger'[i] = ledger[i]
      /\ \A k \in 1..Len(rows) : ledger'[Len(ledger) + k] = rows[k]
      /\ \A i \in DOMAIN ledger' : i \in DOMAIN ledger \/ \E k \in 1..Len(rows) : i = Len(ledger) + k
      /\ \A c : is_revoked(c) => is_revoked(c)'
    BY LedgerGrows
<1>2. PICK L : L = Len(ledger) + Len(rows)
    OBVIOUS
<1>3. ledger'[L] = r /\ L \in DOMAIN ledger' /\ L \notin DOMAIN ledger /\ \A i \in DOMAIN ledger : i < L
    BY <1>1, <1>2
<1>4. ASSUME NEW i \in DOMAIN ledger', ledger'[i].row = "issue"
      PROVE  i = L \/ (i \in DOMAIN ledger /\ ledger[i].row = "issue" /\ ledger'[i] = ledger[i])
    <2>1. CASE i \in DOMAIN ledger
        BY <1>1, <1>4, <2>1
    <2>2. CASE i \notin DOMAIN ledger
        <3>1. PICK k \in 1..Len(rows) : i = Len(ledger) + k
            BY <1>1, <1>4, <2>2
        <3>2. rows[k].row = "issue"
            BY <1>1, <1>4, <3>1
        <3> QED
            BY <1>2, <3>1, <3>2
    <2> QED
        BY <2>1, <2>2
<1>5. ASSUME NEW i \in DOMAIN ledger', ledger'[i].row = "issue", ledger'[i].why \in Recovering
      PROVE  /\ intended[ledger'[i].why] \in Recoveries
             /\ intended[ledger'[i].why].new = [cap |-> ledger'[i].cap, key |-> ledger'[i].key]
    BY <1>3, <1>4, <1>5 DEF LedgerLine
<1>6. ASSUME NEW op \in Recovering, NEW i \in IssuedBy(op)', NEW k \in IssuedBy(op)' PROVE i = k
    <2>1. /\ i \in DOMAIN ledger' /\ ledger'[i].row = "issue" /\ ledger'[i].why = op
          /\ k \in DOMAIN ledger' /\ ledger'[k].row = "issue" /\ ledger'[k].why = op
        BY DEF IssuedBy
    <2>2. i = L \/ i \in IssuedBy(op)
        BY <1>4, <2>1 DEF IssuedBy
    <2>3. k = L \/ k \in IssuedBy(op)
        BY <1>4, <2>1 DEF IssuedBy
    <2>4. i = L \/ k = L => IssuedBy(op) = {}
        BY <1>3, <2>1
    <2> QED
        BY <2>2, <2>3, <2>4 DEF LedgerLine
<1>7. ASSUME NEW cap \in Names, NEW i \in IssuesOf(cap)', NEW k \in IssuesOf(cap)', i < k
      PROVE  KeyRevoked(cap, i)'
    <2>1. /\ i \in DOMAIN ledger' /\ ledger'[i].row = "issue" /\ ledger'[i].cap = cap
          /\ k \in DOMAIN ledger' /\ ledger'[k].row = "issue" /\ ledger'[k].cap = cap
        BY DEF IssuesOf
    <2>2. i \in DOMAIN ledger
        <3>1. i # L
            BY <1>1, <1>2, <1>7, <2>1
        <3> QED
            BY <1>4, <2>1, <3>1
    <2>3. i \in IssuesOf(cap) /\ ledger'[i] = ledger[i]
        BY <1>1, <2>1, <2>2 DEF IssuesOf
    <2>4. CASE k = L
        <3>1. r.row = "issue" /\ r.cap = cap
            BY <1>3, <2>1, <2>4
        <3> QED
            BY <2>3, <3>1
    <2>5. CASE k # L
        <3>1. k \in IssuesOf(cap)
            BY <1>4, <2>1, <2>5 DEF IssuesOf
        <3>2. KeyRevoked(cap, i)
            BY <1>7, <2>3, <3>1 DEF LedgerLine
        <3>3. PICK c : c = [cap |-> cap, key |-> ledger[i].key]
            OBVIOUS
        <3>4. is_revoked(c)'
            BY <1>1, <3>2, <3>3 DEF KeyRevoked
        <3> QED
            BY <2>3, <3>3, <3>4 DEF KeyRevoked, is_revoked
    <2> QED
        BY <2>4, <2>5
<1> QED
    BY <1>1, <1>5, <1>6, <1>7 DEF LedgerLine


\* What a desk has found out while others add rows.
LEMMA DeskSurvives ==
    ASSUME LedgerLine, NEW rows \in Seq(LedgerRow), Len(rows) > 0, ledger' = ledger \o rows, UNCHANGED intended,
           NEW x \in AtDesk, DeskSound(x)
    PROVE  DeskSound(x)'
<1>1. /\ Len(ledger) \in Nat /\ Len(rows) \in Nat /\ Len(ledger') = Len(ledger) + Len(rows)
      /\ \A cap : IssuesOf(cap) \subseteq IssuesOf(cap)'
      /\ \A op : IssuedBy(op) \subseteq IssuedBy(op)'
    BY LedgerGrows
<1>2. x.read \in Nat
    BY DEF AtDesk
<1>3. x.at = "commit" => x.read < Len(ledger')
    BY <1>1, <1>2 DEF DeskSound
<1>4. x.at = "commit" => x.read <= Len(ledger') /\ x.read # Len(ledger')
    BY <1>1, <1>2, <1>3
<1>5. x.at = "found" => Known(x.call.new.cap)'
    BY <1>1 DEF DeskSound, Known
<1>6. x.at # "idle" /\ x.done => IssuedBy(x.call.op)' # {}
    BY <1>1 DEF DeskSound
<1> QED
    BY <1>4, <1>5, <1>6 DEF DeskSound

\* What a desk has found out while others are busy at theirs.
LEMMA DeskWaits ==
    ASSUME UNCHANGED ledger, \A op \in Recovering : intended[op] # NoIntent => intended'[op] = intended[op],
           NEW x \in AtDesk, DeskSound(x)
    PROVE  DeskSound(x)'
<1>1. x.at # "idle" => x.call \in Recoveries /\ x.call # NoIntent /\ x.call.op \in Recovering
    BY RecoveryAssumption DEF DeskSound, Recovering
<1>2. x.at \in {"look", "found", "dispatch", "commit"} => intended'[x.call.op] = x.call
    BY <1>1 DEF DeskSound
<1>3. /\ \A op : IssuedBy(op)' = IssuedBy(op)
      /\ \A cap : Known(cap)' = Known(cap) /\ IssuesOf(cap)' = IssuesOf(cap)
      /\ \A c : authenticates(c)' = authenticates(c)
    BY DEF IssuedBy, Known, IssuesOf, authenticates, newest, is_revoked
<1> QED
    BY <1>2, <1>3 DEF DeskSound

\* Rows are added, by a call that ends or by others.
LEMMA RowsStep ==
    ASSUME RecoveryInv, LedgerLine', NEW rows \in Seq(LedgerRow), Len(rows) > 0, ledger' = ledger \o rows,
           UNCHANGED intended,
           UNCHANGED desk \/ \E d \in Desks : desk' = [desk EXCEPT ![d] = NoDesk],
           \A a \in given' : a \in given \/ GivenSound(a)'
    PROVE  RecoveryInv'
<1>1. /\ LedgerLine /\ desk \in [Desks -> AtDesk] /\ intended \in [Recovering -> Recoveries \cup {NoIntent}]
    BY DEF RecoveryInv
<1>2. NoDesk \in AtDesk /\ NoDesk.at = "idle" /\ NoDesk.done = FALSE
    BY DEF NoDesk, AtDesk
<1>3. desk' \in [Desks -> AtDesk] /\ \A d \in Desks : desk'[d] = desk[d] \/ desk'[d] = NoDesk
    BY <1>1, <1>2
<1>4. ASSUME NEW d \in Desks PROVE DeskSound(desk[d])'
    <2>1. PICK x : x = desk'[d]
        OBVIOUS
    <2>2. x \in AtDesk /\ DeskSound(x)
        <3>1. DeskSound(NoDesk)
            BY <1>2 DEF DeskSound
        <3> QED
            BY <1>1, <1>2, <1>3, <2>1, <3>1 DEF RecoveryInv
    <2>3. DeskSound(x)'
        BY <1>1, <2>2, DeskSurvives
    <2> QED
        BY <2>1, <2>3
<1>5. ASSUME NEW b \in given' PROVE GivenSound(b)'
    <2>1. \A op : IssuedBy(op) \subseteq IssuedBy(op)'
        BY <1>1, LedgerGrows
    <2>2. CASE b \in given
        BY <2>1, <2>2 DEF RecoveryInv, GivenSound
    <2>3. CASE b \notin given
        BY <2>3
    <2> QED
        BY <2>2, <2>3
<1> QED
    BY <1>1, <1>3, <1>4, <1>5 DEF RecoveryInv

\* A desk moves and the history stays.
LEMMA DeskStep ==
    ASSUME RecoveryInv, UNCHANGED ledger, intended' \in [Recovering -> Recoveries \cup {NoIntent}],
           \A op \in Recovering : intended[op] # NoIntent => intended'[op] = intended[op],
           NEW d \in Desks, NEW x \in AtDesk, desk' = [desk EXCEPT ![d] = x], DeskSound(x)',
           \A a \in given' : a \in given \/ GivenSound(a)'
    PROVE  RecoveryInv'
<1>1. /\ LedgerLine /\ desk \in [Desks -> AtDesk] /\ intended \in [Recovering -> Recoveries \cup {NoIntent}]
    BY DEF RecoveryInv
<1>2. desk' \in [Desks -> AtDesk] /\ desk'[d] = x /\ \A e \in Desks \ {d} : desk'[e] = desk[e]
    BY <1>1
<1>3. NoIntent \notin Recoveries
    BY RecoveryAssumption
<1>4. ASSUME NEW e \in Desks PROVE DeskSound(desk[e])'
    <2>1. PICK y : y = desk'[e]
        OBVIOUS
    <2>2. CASE e = d
        <3>1. y = x
            BY <1>2, <2>1, <2>2
        <3> QED
            BY <2>1, <3>1
    <2>3. CASE e # d
        <3>1. y = desk[e] /\ y \in AtDesk /\ DeskSound(y)
            BY <1>1, <1>2, <2>1, <2>3 DEF RecoveryInv
        <3>2. DeskSound(y)'
            BY <3>1, DeskWaits
        <3> QED
            BY <2>1, <3>2
    <2> QED
        BY <2>2, <2>3
<1>5. LedgerLine'
    <2>1. \A i \in DOMAIN ledger : ledger[i].row = "issue" /\ ledger[i].why \in Recovering =>
              intended'[ledger[i].why] = intended[ledger[i].why]
        BY <1>1, <1>3 DEF LedgerLine
    <2> QED
        BY <1>1, <2>1 DEF LedgerLine, IssuedBy, IssuesOf, KeyRevoked, is_revoked
<1>6. ASSUME NEW b \in given' PROVE GivenSound(b)'
    <2>1. CASE b \in given
        BY <1>3, <2>1 DEF RecoveryInv, GivenSound, IssuedBy
    <2>2. CASE b \notin given
        BY <2>2
    <2> QED
        BY <2>1, <2>2
<1> QED
    BY <1>2, <1>4, <1>5, <1>6 DEF RecoveryInv


\* What a desk has its type.
LEMMA DeskTypes ==
    ASSUME RecoveryInv, NEW d \in Desks
    PROVE  /\ desk[d] \in AtDesk /\ DeskSound(desk[d]) /\ desk \in [Desks -> AtDesk]
           /\ NoDesk \in AtDesk /\ NoDesk.at = "idle" /\ NoDesk.done = FALSE
           /\ \A at \in {"idle", "remember", "look", "found", "dispatch", "commit"} :
                 LET x == [desk[d] EXCEPT !.at = at] IN
                 /\ x \in AtDesk /\ x.at = at /\ x.call = desk[d].call /\ x.done = desk[d].done
                 /\ [desk EXCEPT ![d].at = at] = [desk EXCEPT ![d] = x]
BY DEF RecoveryInv, AtDesk, NoDesk

\* A call starts: with the account it recovers with, or with its operation done.
LEMMA StartSteps ==
    ASSUME RecoveryInv, NEW d \in Desks, NEW c \in Recoveries,
           provision_recovery(d, c) \/ rebootstrap(d, c) \/ rotate_account(d, c) \/ rotate_again(d, c)
    PROVE  RecoveryInv'
<1>1. ASSUME NEW done \in BOOLEAN, Starts(d, c, done), c.kind = "rotate" /\ ~done => c.current.cap = Account,
             done => IssuedBy(c.op) # {}
      PROVE  RecoveryInv'
    <2>1. PICK x : x = [NoDesk EXCEPT !.at = "remember", !.call = c, !.done = done]
        OBVIOUS
    <2>2. x \in AtDesk /\ x.at = "remember" /\ x.call = c /\ x.done = done
        BY <2>1 DEF NoDesk, AtDesk
    <2>3. desk' = [desk EXCEPT ![d] = x] /\ UNCHANGED <<ledger, intended, withdrawn, given>>
        BY <1>1, <2>1 DEF Starts
    <2>4. DeskSound(x)'
        <3>1. \A op : IssuedBy(op)' = IssuedBy(op)
            BY <2>3 DEF IssuedBy
        <3> QED
            BY <1>1, <2>2, <3>1 DEF DeskSound
    <2>5. intended' \in [Recovering -> Recoveries \cup {NoIntent}]
        BY <2>3 DEF RecoveryInv
    <2> QED
        BY <2>2, <2>3, <2>4, <2>5, DeskStep DEF RecoveryInv
<1>2. CASE provision_recovery(d, c) \/ rebootstrap(d, c)
    <2>1. Starts(d, c, FALSE) /\ c.kind # "rotate"
        BY <1>2 DEF provision_recovery, rebootstrap
    <2> QED
        BY <1>1, <2>1
<1>3. CASE rotate_account(d, c)
    <2>1. Starts(d, c, FALSE) /\ c.current.cap = Account
        BY <1>3 DEF rotate_account, entitled_rotate, check_recovery
    <2> QED
        BY <1>1, <2>1
<1>4. CASE rotate_again(d, c)
    <2>1. Starts(d, c, TRUE) /\ completed(c)
        BY <1>4 DEF rotate_again
    <2>2. Known(Account) /\ newest(Account).why = c.op
        BY <2>1 DEF completed, authenticates, check_recovery, issue_reason
    <2>3. PICK m \in IssuesOf(Account) : newest(Account) = ledger[m]
        BY <2>2, NewestIssue DEF RecoveryInv
    <2>4. m \in IssuedBy(c.op)
        BY <2>2, <2>3 DEF IssuesOf, IssuedBy
    <2> QED
        BY <1>1, <2>1, <2>4
<1> QED
    BY <1>2, <1>3, <1>4

\* A call is journaled, finds its credential, is dispatched or ends.
LEMMA LookSteps ==
    ASSUME RecoveryInv, NEW d \in Desks,
           remembered(d) \/ look(d) \/ found(d) \/ dispatched(d) \/ Withdraws(d)
    PROVE  RecoveryInv'
<1>1. /\ desk[d] \in AtDesk /\ DeskSound(desk[d]) /\ desk \in [Desks -> AtDesk]
      /\ NoDesk \in AtDesk /\ NoDesk.at = "idle" /\ NoDesk.done = FALSE
      /\ \A at \in {"idle", "remember", "look", "found", "dispatch", "commit"} :
            LET x == [desk[d] EXCEPT !.at = at] IN
            /\ x \in AtDesk /\ x.at = at /\ x.call = desk[d].call /\ x.done = desk[d].done
            /\ [desk EXCEPT ![d].at = at] = [desk EXCEPT ![d] = x]
    BY DeskTypes
<1>2. PICK c, done : c = desk[d].call /\ done = desk[d].done
    OBVIOUS
<1>3. LedgerLine /\ intended \in [Recovering -> Recoveries \cup {NoIntent}] /\ NoIntent \notin Recoveries
    BY RecoveryAssumption DEF RecoveryInv
<1>4. desk[d].at # "idle" =>
         /\ c \in Recoveries /\ c.op \in Recovering
         /\ c.kind = "rotate" /\ ~done => c.current.cap = Account
         /\ done => IssuedBy(c.op) # {}
    BY <1>1, <1>2 DEF DeskSound, Recovering
<1>5. ASSUME NEW at \in {"look", "found", "dispatch"}, UNCHANGED ledger,
             intended' \in [Recovering -> Recoveries \cup {NoIntent}], UNCHANGED given,
             \A op \in Recovering : intended[op] # NoIntent => intended'[op] = intended[op],
             To(d, at), desk[d].at # "idle", intended'[c.op] = c, at # "look" => ~done,
             at = "found" => Known(c.new.cap)
      PROVE  RecoveryInv'
    <2>1. PICK x : x = [desk[d] EXCEPT !.at = at]
        OBVIOUS
    <2>2. x \in AtDesk /\ x.at = at /\ x.call = c /\ x.done = done /\ desk' = [desk EXCEPT ![d] = x]
        BY <1>1, <1>2, <1>5, <2>1 DEF To
    <2>3. DeskSound(x)'
        <3>1. (\A op : IssuedBy(op)' = IssuedBy(op)) /\ (\A cap : Known(cap)' = Known(cap))
            BY <1>5 DEF IssuedBy, Known, IssuesOf
        <3> QED
            BY <1>4, <1>5, <2>2, <3>1 DEF DeskSound
    <2> QED
        BY <1>5, <2>2, <2>3, DeskStep
<1>6. ASSUME UNCHANGED ledger, Leaves(d), intended' \in [Recovering -> Recoveries \cup {NoIntent}],
             \A op \in Recovering : intended[op] # NoIntent => intended'[op] = intended[op],
             \A a \in given' : a \in given \/ GivenSound(a)'
      PROVE  RecoveryInv'
    <2>1. DeskSound(NoDesk)'
        BY <1>1 DEF DeskSound
    <2> QED
        BY <1>1, <1>6, <2>1, DeskStep DEF Leaves
<1>7. ASSUME desk[d].at # "idle", Gives(d), UNCHANGED <<ledger, intended, withdrawn>>,
             IssuedBy(c.op) # {}, intended[c.op] = c
      PROVE  RecoveryInv'
    <2>1. PICK a : a = [op |-> c.op, new |-> c.new]
        OBVIOUS
    <2>2. a.op = c.op /\ a.new = c.new /\ given' = given \cup {a} /\ Leaves(d)
        BY <1>2, <1>7, <2>1 DEF Gives
    <2>3. GivenSound(a)'
        <3>1. IssuedBy(c.op)' = IssuedBy(c.op)
            BY <1>7 DEF IssuedBy
        <3> QED
            BY <1>4, <1>7, <2>2, <3>1 DEF GivenSound
    <2> QED
        BY <1>3, <1>6, <1>7, <2>2, <2>3
<1>8. CASE remembered(d)
    <2>1. /\ desk[d].at = "remember" /\ intended[c.op] \in {NoIntent, c} /\ intended' = [intended EXCEPT ![c.op] = c]
          /\ \/ To(d, "dispatch") /\ ~done
             \/ To(d, "look")
             \/ Leaves(d)
          /\ UNCHANGED <<ledger, withdrawn, given>>
        BY <1>2, <1>8 DEF remembered
    <2>2. /\ intended' \in [Recovering -> Recoveries \cup {NoIntent}] /\ intended'[c.op] = c
          /\ \A op \in Recovering : intended[op] # NoIntent => intended'[op] = intended[op]
        BY <1>3, <1>4, <2>1
    <2>3. CASE Leaves(d)
        BY <1>6, <2>1, <2>2, <2>3
    <2> QED
        BY <1>5, <2>1, <2>2, <2>3
<1>9. CASE look(d)
    <2>1. /\ desk[d].at = "look" /\ UNCHANGED <<ledger, intended, withdrawn>> /\ intended[c.op] = c
          /\ \/ done /\ Gives(d)
             \/ ~done /\ To(d, "dispatch") /\ UNCHANGED given
             \/ ~done /\ Known(c.new.cap) /\ To(d, "found") /\ UNCHANGED given
        BY <1>1, <1>2, <1>9 DEF look, authenticates, DeskSound
    <2> QED
        BY <1>3, <1>4, <1>5, <1>7, <2>1
<1>10. CASE found(d)
    <2>1. /\ desk[d].at = "found" /\ Gives(d) /\ UNCHANGED <<ledger, intended, withdrawn>>
          /\ newest(c.new.cap).why = c.op /\ Known(c.new.cap) /\ intended[c.op] = c
        BY <1>1, <1>2, <1>10 DEF found, own, issue_reason, DeskSound
    <2>2. PICK m \in IssuesOf(c.new.cap) : newest(c.new.cap) = ledger[m]
        BY <1>3, <2>1, NewestIssue
    <2>3. m \in IssuedBy(c.op)
        BY <2>1, <2>2 DEF IssuesOf, IssuedBy
    <2> QED
        BY <1>7, <2>1, <2>3
<1>11. CASE dispatched(d)
    <2>1. /\ desk[d].at = "dispatch" /\ authenticates(c.current) /\ UNCHANGED <<ledger, intended, withdrawn, given>>
          /\ IF c.kind = "rotate" THEN \A i \in IssuesOf(Account) : ledger[i].key # c.new.key
                                  ELSE ~Known(c.new.cap)
          /\ desk' = [desk EXCEPT ![d].at = "commit", ![d].read = Len(ledger)]
        BY <1>2, <1>11 DEF dispatched
    <2>2. PICK x : x = [desk[d] EXCEPT !.at = "commit", !.read = Len(ledger)]
        OBVIOUS
    <2>3. Len(ledger) \in Nat
        BY <1>3 DEF LedgerLine
    <2>4. /\ x \in AtDesk /\ x.at = "commit" /\ x.call = c /\ x.done = done /\ x.read = Len(ledger)
        BY <1>1, <1>2, <2>2, <2>3 DEF AtDesk
    <2>5. desk' = [desk EXCEPT ![d] = x]
        BY <1>1, <2>1, <2>2
    <2>6. DeskSound(x)'
        <3>1. /\ c \in Recoveries /\ intended[c.op] = c /\ ~done
              /\ c.kind = "rotate" => c.current.cap = Account
            BY <1>1, <1>2, <2>1 DEF DeskSound
        <3>2. /\ \A op : IssuedBy(op)' = IssuedBy(op)
              /\ \A cap : Known(cap)' = Known(cap) /\ IssuesOf(cap)' = IssuesOf(cap)
              /\ \A e : authenticates(e)' = authenticates(e)
            BY <2>1 DEF IssuedBy, Known, IssuesOf, authenticates, newest, is_revoked
        <3> QED
            BY <2>1, <2>3, <2>4, <3>1, <3>2 DEF DeskSound
    <2> QED
        BY <1>3, <2>1, <2>4, <2>5, <2>6, DeskStep
<1>12. CASE Withdraws(d)
    BY <1>3, <1>6, <1>12 DEF Withdraws
<1> QED
    BY <1>8, <1>9, <1>10, <1>11, <1>12


\* The row of an issue and of a revocation.
LEMMA RowTypes ==
    ASSUME NEW cap \in Names, NEW key \in Numbers,
           NEW shape \in {"administrator", "recovery", "publisher", "none"} \cup {s.shape : s \in Strangers},
           NEW why \in Recovering \cup {"bootstrap", "stranger", "none"}
    PROVE  /\ Issued(cap, key, shape, why) \in LedgerRow /\ Revoked(cap, key) \in LedgerRow
           /\ Issued(cap, key, shape, why).row = "issue" /\ Issued(cap, key, shape, why).cap = cap
           /\ Issued(cap, key, shape, why).key = key /\ Issued(cap, key, shape, why).why = why
           /\ Revoked(cap, key).row = "revoke"
BY DEF Issued, Revoked, LedgerRow

\* A batch commits under the guard of the history it was built from.
LEMMA CommitStep ==
    ASSUME RecoveryInv, NEW d \in Desks, committed(d)
    PROVE  RecoveryInv'
<1>1. PICK c : c = desk[d].call
    OBVIOUS
<1>2. /\ LedgerLine /\ DeskSound(desk[d]) /\ intended[c.op] = c /\ c \in Recoveries /\ c.op \in Recovering
      /\ desk[d].read = Len(ledger) /\ ledger' = ledger \o written(c) /\ UNCHANGED <<intended, withdrawn>>
      /\ c.kind = "rotate" => c.current.cap = Account
      /\ Gives(d) \/ (Leaves(d) /\ UNCHANGED given)
      /\ desk[d].at = "commit"
    <2>1. /\ LedgerLine /\ DeskSound(desk[d])
        BY DEF RecoveryInv
    <2>2. /\ desk[d].at = "commit" /\ desk[d].read = Len(ledger) /\ ledger' = ledger \o written(c)
          /\ UNCHANGED <<intended, withdrawn>>
          /\ Gives(d) \/ (Leaves(d) /\ UNCHANGED given)
        BY <1>1 DEF committed, same_history
    <2> QED
        BY <1>1, <2>1, <2>2 DEF DeskSound, Recovering
<1>3. /\ c.kind \in {"provision", "rebootstrap", "rotate"} /\ c.new = [cap |-> c.new.cap, key |-> c.new.key]
      /\ c.op \notin {"bootstrap", "stranger"} /\ (c.kind = "rotate" => c.new.cap = c.current.cap)
    BY <1>2, RecoveryAssumption
<1>4. /\ c.kind # "rotate" => ~Known(c.new.cap)
      /\ c.kind = "rotate" =>
            authenticates(c.current) /\ \A i \in IssuesOf(Account) : ledger[i].key # c.new.key
    <2>1. Len(ledger) <= Len(ledger)
        BY <1>2 DEF DeskSound
    <2> QED
        BY <1>1, <1>2 DEF DeskSound
<1>5. c.new.cap \in Names /\ c.new.key \in Numbers /\ c.current.cap \in Names /\ c.current.key \in Numbers
    BY <1>2 DEF Names, Numbers
<1>6. IssuedBy(c.op) = {}
    <2> SUFFICES ASSUME NEW i \in IssuedBy(c.op) PROVE FALSE
        OBVIOUS
    <2>1. i \in DOMAIN ledger /\ ledger[i].row = "issue" /\ ledger[i].why = c.op
        BY DEF IssuedBy
    <2>2. c.new = [cap |-> ledger[i].cap, key |-> ledger[i].key]
        BY <1>2, <2>1 DEF LedgerLine
    <2>3. i \in IssuesOf(c.new.cap) /\ ledger[i].key = c.new.key
        BY <2>1, <2>2 DEF IssuesOf
    <2> QED
        BY <1>2, <1>3, <1>4, <2>3 DEF Known
<1>7. PICK rows, r, shape : /\ rows = written(c) /\ r = Issued(c.new.cap, c.new.key, shape, c.op)
                            /\ shape \in {"recovery", "publisher"}
                            /\ \/ c.kind # "rotate" /\ rows = <<r>>
                               \/ c.kind = "rotate" /\ rows = <<Revoked(c.current.cap, c.current.key), r>>
    BY <1>3 DEF written
<1>8. /\ r \in LedgerRow /\ r.row = "issue" /\ r.cap = c.new.cap /\ r.key = c.new.key /\ r.why = c.op
      /\ Revoked(c.current.cap, c.current.key) \in LedgerRow /\ Revoked(c.current.cap, c.current.key).row = "revoke"
    BY <1>2, <1>5, <1>7, RowTypes
<1>9. rows \in Seq(LedgerRow) /\ Len(rows) > 0 /\ r = rows[Len(rows)]
      /\ \A k \in 1..Len(rows) : rows[k].row = "revoke" \/ k = Len(rows)
    <2>1. CASE rows = <<r>>
        BY <1>8, <2>1
    <2>2. CASE rows = <<Revoked(c.current.cap, c.current.key), r>>
        BY <1>8, <2>2
    <2> QED
        BY <1>7, <2>1, <2>2
<1>10. \A i \in IssuesOf(r.cap) : KeyRevoked(r.cap, i)'
    <2>1. CASE c.kind # "rotate"
        BY <1>4, <1>8, <2>1 DEF Known
    <2>2. CASE c.kind = "rotate"
        <3>1. /\ r.cap = Account /\ c.current.cap = Account /\ Account \in Names
              /\ rows = <<Revoked(Account, c.current.key), r>>
              /\ Known(Account) /\ newest(Account).key = c.current.key
            BY <1>2, <1>3, <1>4, <1>7, <1>8, <2>2 DEF authenticates, Names
        <3>2. PICK m \in IssuesOf(Account) : newest(Account) = ledger[m] /\ \A k \in IssuesOf(Account) : k <= m
            BY <1>2, <3>1, NewestIssue
        <3>3. /\ \A i \in DOMAIN ledger : ledger'[i] = ledger[i]
              /\ \A e : is_revoked(e) => is_revoked(e)'
              /\ ledger'[Len(ledger) + 1] = rows[1] /\ Len(ledger) + 1 \in DOMAIN ledger'
              /\ DOMAIN ledger \subseteq Nat
            <4>1. Len(rows) = 2 /\ 1 \in 1..Len(rows)
                BY <3>1
            <4>2. /\ \A i \in DOMAIN ledger : ledger'[i] = ledger[i]
                  /\ \A e : is_revoked(e) => is_revoked(e)'
                  /\ \A k \in 1..Len(rows) : ledger'[Len(ledger) + k] = rows[k]
                  /\ Len(ledger) \in Nat /\ DOMAIN ledger = 1..Len(ledger)
                  /\ DOMAIN ledger' = 1..(Len(ledger) + Len(rows))
                BY <1>2, <1>7, <1>9, LedgerGrows
            <4>3. Len(ledger) + 1 \in DOMAIN ledger'
                BY <4>1, <4>2
            <4>4. ledger'[Len(ledger) + 1] = rows[1]
                BY <4>1, <4>2
            <4> QED
                BY <4>2, <4>3, <4>4
        <3>4. ASSUME NEW i \in IssuesOf(Account) PROVE KeyRevoked(Account, i)'
            <4>1. i \in DOMAIN ledger /\ m \in DOMAIN ledger /\ i \in Nat /\ m \in Nat
                BY <3>2, <3>3 DEF IssuesOf
            <4>2. CASE i = m
                <5>1. ledger'[i].key = c.current.key
                    BY <3>1, <3>2, <3>3, <4>1, <4>2
                <5>2. ledger'[Len(ledger) + 1] = Revoked(Account, c.current.key)
                    BY <3>1, <3>3
                <5> QED
                    BY <3>3, <5>1, <5>2 DEF KeyRevoked, is_revoked
            <4>3. CASE i # m
                <5>1. i < m
                    BY <3>2, <4>1, <4>3
                <5>2. KeyRevoked(Account, i)
                    BY <1>2, <3>1, <3>2, <5>1 DEF LedgerLine
                <5>3. PICK e : e = [cap |-> Account, key |-> ledger[i].key]
                    OBVIOUS
                <5>4. is_revoked(e)'
                    BY <3>3, <5>2, <5>3 DEF KeyRevoked
                <5> QED
                    BY <3>3, <4>1, <5>3, <5>4 DEF KeyRevoked, is_revoked
            <4> QED
                BY <4>2, <4>3
        <3> QED
            BY <3>1, <3>4
    <2> QED
        BY <2>1, <2>2
<1>11. LedgerLine'
    <2>1. r.row = "issue" /\ r.why \in Recovering =>
              /\ intended[r.why] \in Recoveries /\ intended[r.why].new = [cap |-> r.cap, key |-> r.key]
              /\ IssuedBy(r.why) = {}
        BY <1>2, <1>3, <1>6, <1>8
    <2> QED
        BY <1>2, <1>7, <1>9, <1>10, <2>1, LineGrows
<1>12. IssuedBy(c.op)' # {}
    <2>1. /\ Len(rows) \in 1..Len(rows) /\ ledger'[Len(ledger) + Len(rows)] = rows[Len(rows)]
          /\ Len(ledger) + Len(rows) \in DOMAIN ledger'
        <3>1. Len(rows) \in 1..Len(rows)
            BY <1>9
        <3> QED
            BY <1>2, <1>7, <1>9, <3>1, LedgerGrows
    <2> QED
        BY <1>8, <1>9, <2>1 DEF IssuedBy
<1>13. desk' = [desk EXCEPT ![d] = NoDesk] /\ \A a \in given' : a \in given \/ GivenSound(a)'
    <2>1. CASE Leaves(d) /\ UNCHANGED given
        BY <2>1 DEF Leaves
    <2>2. CASE Gives(d)
        <3>1. PICK a : a = [op |-> c.op, new |-> c.new]
            OBVIOUS
        <3>2. given' = given \cup {a} /\ a.op = c.op /\ a.new = c.new /\ Leaves(d)
            BY <1>1, <2>2, <3>1 DEF Gives
        <3>3. GivenSound(a)'
            BY <1>2, <1>12, <3>2 DEF GivenSound
        <3> QED
            BY <3>2, <3>3 DEF Leaves
    <2> QED
        BY <1>2, <2>1, <2>2
<1> QED
    BY <1>2, <1>7, <1>9, <1>11, <1>13, RowsStep


\* Nothing that matters happens.
LEMMA RecoveryStutters ==
    ASSUME RecoveryInv, UNCHANGED <<ledger, intended, desk, given>>
    PROVE  RecoveryInv'
<1>1. LedgerLine'
    BY DEF RecoveryInv, LedgerLine, IssuedBy, IssuesOf, KeyRevoked, is_revoked
<1>2. ASSUME NEW d \in Desks PROVE DeskSound(desk[d])'
    <2>1. PICK x : x = desk[d]
        OBVIOUS
    <2>2. x \in AtDesk /\ DeskSound(x)
        BY <2>1 DEF RecoveryInv
    <2>3. DeskSound(x)'
        BY <2>2, DeskWaits
    <2> QED
        BY <2>1, <2>3
<1>3. \A a : GivenSound(a) => GivenSound(a)'
    BY DEF GivenSound, IssuedBy
<1> QED
    BY <1>1, <1>2, <1>3 DEF RecoveryInv

\* What the invariant says of operations, answers and keys.
LEMMA RecoverySound ==
    ASSUME RecoveryInv
    PROVE  RecoveryProven
<1>1. LedgerLine /\ NoIntent \notin Recoveries
    BY RecoveryAssumption DEF RecoveryInv
<1>2. ASSUME NEW op \in Recovering
      PROVE  /\ Cardinality(IssuedBy(op)) <= 1
             /\ \A i \in IssuedBy(op) :
                   intended[op] # NoIntent /\ intended[op].new = [cap |-> ledger[i].cap, key |-> ledger[i].key]
    <2>1. Cardinality(IssuedBy(op)) <= 1
        <3>1. CASE IssuedBy(op) = {}
            BY <3>1, FS_EmptySet
        <3>2. CASE IssuedBy(op) # {}
            <4>3. PICK i \in IssuedBy(op) : TRUE
                BY <3>2
            <4>4. \A k \in IssuedBy(op) : k = i
                BY <1>1 DEF LedgerLine
            <4>1. IssuedBy(op) = {i}
                BY <4>3, <4>4
            <4>2. Cardinality(IssuedBy(op)) = 1
                BY <4>1, FS_Singleton
            <4> QED
                BY <4>2
        <3> QED
            BY <3>1, <3>2
    <2>2. ASSUME NEW i \in IssuedBy(op)
          PROVE  intended[op] # NoIntent /\ intended[op].new = [cap |-> ledger[i].cap, key |-> ledger[i].key]
        BY <1>1 DEF LedgerLine, IssuedBy
    <2> QED
        BY <2>1, <2>2
<1>3. ASSUME NEW cap \in {"root", Account, "pub"}, NEW i \in IssuesOf(cap), NEW k \in IssuesOf(cap), i < k
      PROVE  is_revoked([cap |-> cap, key |-> ledger[i].key])
    <2>1. cap \in Names
        <3>1. ledger[i] \in LedgerRow /\ ledger[i].cap = cap
            BY <1>1 DEF LedgerLine, IssuesOf
        <3> QED
            BY <3>1 DEF LedgerRow
    <2> QED
        BY <1>1, <1>3, <2>1 DEF LedgerLine, KeyRevoked
<1> QED
    BY <1>2, <1>3 DEF RecoveryProven, RecoveryInv, GivenSound

\* Others issue, revoke and cancel.
LEMMA StrangerSteps ==
    ASSUME RecoveryInv,
           \/ \E s \in Strangers : StrangerIssues(s)
           \/ \E c \in Recoveries : StrangerRevokes(c.new) \/ CancelOperation(c.op)
    PROVE  RecoveryInv'
<1>1. LedgerLine /\ ledger \in Seq(LedgerRow)
    BY DEF RecoveryInv, LedgerLine
<1>2. ASSUME NEW r \in LedgerRow, ledger' = Append(ledger, r), UNCHANGED <<intended, desk, given>>, LedgerLine'
      PROVE  RecoveryInv'
    <2>1. PICK rows : rows = <<r>>
        OBVIOUS
    <2>2. rows \in Seq(LedgerRow) /\ Len(rows) > 0 /\ ledger' = ledger \o rows
        BY <1>1, <1>2, <2>1, AppendIsConcat
    <2> QED
        BY <1>2, <2>2, RowsStep
<1>3. ASSUME NEW r \in LedgerRow, ledger' = Append(ledger, r), UNCHANGED <<intended, desk, given>>,
             r.why \notin Recovering, r.row = "issue" => ~Known(r.cap)
      PROVE  LedgerLine'
    <2>1. PICK rows : rows = <<r>>
        OBVIOUS
    <2>2. /\ rows \in Seq(LedgerRow) /\ Len(rows) > 0 /\ ledger' = ledger \o rows /\ r = rows[Len(rows)]
          /\ \A k \in 1..Len(rows) : rows[k].row = "revoke" \/ k = Len(rows)
        BY <1>1, <1>3, <2>1, AppendIsConcat
    <2>3. r.row = "issue" => IssuesOf(r.cap) = {}
        BY <1>3 DEF Known
    <2> QED
        BY <1>1, <1>3, <2>2, <2>3, LineGrows
<1>4. ASSUME NEW s \in Strangers, StrangerIssues(s) PROVE RecoveryInv'
    <2>1. PICK r : r = Issued(s.cap, s.key, s.shape, "stranger")
        OBVIOUS
    <2>2. r \in LedgerRow /\ r.row = "issue" /\ r.cap = s.cap /\ r.why = "stranger"
        <3>1. s.cap \in Names /\ s.key \in Numbers /\ s.shape \in {t.shape : t \in Strangers}
            BY DEF Names, Numbers
        <3>2. r = [row |-> "issue", cap |-> s.cap, key |-> s.key, shape |-> s.shape, why |-> "stranger"]
            BY <2>1 DEF Issued
        <3> QED
            BY <3>1, <3>2 DEF LedgerRow
    <2>3. "stranger" \notin Recovering
        BY RecoveryAssumption DEF Recovering
    <2>4. ledger' = Append(ledger, r) /\ UNCHANGED <<intended, desk, given>> /\ ~Known(s.cap)
        BY <1>4, <2>1 DEF StrangerIssues
    <2> QED
        BY <1>2, <1>3, <2>2, <2>3, <2>4
<1>5. ASSUME NEW c \in Recoveries, StrangerRevokes(c.new) PROVE RecoveryInv'
    <2>1. PICK r : r = Revoked(c.new.cap, c.new.key)
        OBVIOUS
    <2>2. r \in LedgerRow /\ r.row = "revoke"
        <3>1. c.new.cap \in Names /\ c.new.key \in Numbers
            BY DEF Names, Numbers
        <3> QED
            BY <2>1, <3>1 DEF Revoked, LedgerRow
    <2>3. ledger' = Append(ledger, r) /\ UNCHANGED <<intended, desk, given>>
        BY <1>5, <2>1 DEF StrangerRevokes
    <2>4. LedgerLine'
        <3>1. PICK rows : rows = <<r>>
            OBVIOUS
        <3>2. /\ rows \in Seq(LedgerRow) /\ Len(rows) > 0 /\ ledger' = ledger \o rows /\ r = rows[Len(rows)]
              /\ \A k \in 1..Len(rows) : rows[k].row = "revoke" \/ k = Len(rows)
            BY <1>1, <2>2, <2>3, <3>1, AppendIsConcat
        <3> QED
            BY <1>1, <2>2, <2>3, <3>2, LineGrows
    <2> QED
        BY <1>2, <2>2, <2>3, <2>4
<1>6. ASSUME NEW c \in Recoveries, CancelOperation(c.op) PROVE RecoveryInv'
    <2>1. UNCHANGED <<ledger, intended, desk, given>>
        BY <1>6 DEF CancelOperation
    <2> QED
        BY <2>1, RecoveryStutters
<1> QED
    BY <1>4, <1>5, <1>6

\* The scope with its administrator.
LEMMA RecoveryStarts ==
    ASSUME RecoveryInit
    PROVE  RecoveryInv
<1>1. PICK r : r = Issued("root", 0, "administrator", "bootstrap")
    OBVIOUS
<1>2. /\ ledger = <<r>> /\ intended = [o \in Recovering |-> NoIntent] /\ desk = [d \in Desks |-> NoDesk]
      /\ given = {}
    BY <1>1 DEF RecoveryInit
<1>3. r \in LedgerRow /\ r.why = "bootstrap"
    <2>1. "root" \in Names /\ 0 \in Numbers
        BY DEF Names, Numbers
    <2> QED
        BY <1>1, <2>1, RowTypes
<1>4. "bootstrap" \notin Recovering
    BY RecoveryAssumption DEF Recovering
<1>5. ledger \in Seq(LedgerRow) /\ DOMAIN ledger = {1} /\ ledger[1] = r
    BY <1>2, <1>3
<1>6. LedgerLine
    <2>1. \A op \in Recovering : IssuedBy(op) = {}
        BY <1>3, <1>4, <1>5 DEF IssuedBy
    <2>2. \A cap : IssuesOf(cap) \subseteq {1}
        BY <1>5 DEF IssuesOf
    <2> QED
        BY <1>3, <1>4, <1>5, <2>1, <2>2 DEF LedgerLine
<1>7. NoDesk \in AtDesk /\ NoDesk.at = "idle" /\ DeskSound(NoDesk)
    BY DEF NoDesk, AtDesk, DeskSound
<1> QED
    BY <1>2, <1>6, <1>7 DEF RecoveryInv

\* A recovery operation issues one credential at most, the one it journaled, whatever is
\* answered is that one, and of the keys of a capability all but the newest are revoked
\* (recovery.rs: provision_recovery and recover, gate.rs: the guarded batch).
THEOREM RecoveriesProven == RecoverySpec => []RecoveryProven
<1>1. RecoveryInit => RecoveryInv
    BY RecoveryStarts
<1>2. RecoveryInv /\ [RecoveryNext]_recoveryVars => RecoveryInv'
    <2> SUFFICES ASSUME RecoveryInv, [RecoveryNext]_recoveryVars PROVE RecoveryInv'
        OBVIOUS
    <2>1. ASSUME NEW d \in Desks, NEW c \in Recoveries,
                 provision_recovery(d, c) \/ rebootstrap(d, c) \/ rotate_account(d, c) \/ rotate_again(d, c)
          PROVE  RecoveryInv'
        BY <2>1, StartSteps
    <2>2. ASSUME NEW d \in Desks,
                 remembered(d) \/ look(d) \/ found(d) \/ dispatched(d) \/ Withdraws(d)
          PROVE  RecoveryInv'
        BY <2>2, LookSteps
    <2>3. ASSUME NEW d \in Desks, committed(d) PROVE RecoveryInv'
        BY <2>3, CommitStep
    <2>4. CASE \/ \E s \in Strangers : StrangerIssues(s)
               \/ \E c \in Recoveries : StrangerRevokes(c.new) \/ CancelOperation(c.op)
        BY <2>4, StrangerSteps
    <2>5. CASE UNCHANGED recoveryVars
        BY <2>5, RecoveryStutters DEF recoveryVars
    <2> QED
        BY <2>1, <2>2, <2>3, <2>4, <2>5 DEF RecoveryNext
<1>3. RecoveryInv => RecoveryProven
    BY RecoverySound
<1> QED
    BY <1>1, <1>2, <1>3, PTL DEF RecoverySpec

-----------------------------------------------------------------------------
(* The outbox.                                                             *)

OutRow == [entity : Entities, status : {"queued", "claimed", "acked"},
           by : Tokens \cup {Absent}, acker : Tokens \cup {Absent}]
Ticket == [op : {"insert"}, entity : Entities, row : Nat] \cup [op : {"claim"}, limit : Nat, id : Nat]
Client == [ticket : {Absent} \cup Ticket, rows : SUBSET Nat]

\* A row: it is owned exactly when it is not queued, and acknowledged by its owner.
RowSound(r) ==
    /\ r \in OutRow
    /\ r.status = "queued" <=> r.by = Absent
    /\ r.status = "acked" <=> r.acker # Absent
    /\ r.status = "acked" => r.acker = r.by

\* The rows, and the receipts that name them: a claim took as many as it may, and
\* every claimed row is in one.
RowsSound ==
    /\ outbox \in Seq(OutRow) /\ DOMAIN outbox \subseteq 1..MaxRows
    /\ \A i \in DOMAIN outbox : RowSound(outbox[i])
ClaimsSound ==
    /\ claims \in Seq({Absent} \cup SUBSET Nat)
    /\ \A n \in DOMAIN claims : claims[n] # Absent => Cardinality(claims[n]) <= MAX_REPLAY_ROWS
    /\ \A i \in dangling_claims : \E n \in DOMAIN claims : claims[n] # Absent /\ i \in claims[n]

\* A mark that is clean, or not there, covers all the rows of its entity.
MarksSound ==
    /\ marks \in [Entities -> {Absent} \cup [dirty : BOOLEAN]]
    /\ covered \in [Entities -> Nat]
    /\ \A e \in Entities : e \notin dirty_entities => covered[e] = Cardinality(Of(e))

\* A claim ticket asks for no more than the horizon, and has a place for its receipt.
ClientsSound ==
    /\ client \in [Tokens -> Client]
    /\ \A t \in Tokens :
          client[t].ticket # Absent /\ client[t].ticket.op = "claim" =>
              /\ client[t].ticket.limit \in 1..MAX_REPLAY_ROWS
              /\ client[t].ticket.id \in DOMAIN claims

OutboxInv == RowsSound /\ ClaimsSound /\ MarksSound /\ ClientsSound

\* A set of positions has a first one.
LEMMA FirstExists ==
    ASSUME NEW n \in Nat, NEW S \in SUBSET (1..n), S # {}
    PROVE  \E m \in S : \A k \in S : m <= k
<1> DEFINE M == {n + 1 - k : k \in S}
<1>1. M \in SUBSET (1..n) /\ M # {}
    <2>1. \A k \in S : k \in 1..n /\ n + 1 - k \in 1..n
        OBVIOUS
    <2>2. PICK k \in S : TRUE
        OBVIOUS
    <2>3. n + 1 - k \in M
        OBVIOUS
    <2> QED
        BY <2>1, <2>3
<1>2. PICK x \in M : \A y \in M : y <= x
    BY <1>1, LastExists
<1>3. PICK m \in S : x = n + 1 - m
    OBVIOUS
<1>4. ASSUME NEW k \in S PROVE m <= k
    <2>1. n + 1 - k <= x
        BY <1>2
    <2> QED
        BY <1>3, <2>1
<1> QED
    BY <1>4

\* The oldest n rows are n at most, and some if there are any.
LEMMA OldestBounds ==
    ASSUME NEW len \in Nat, NEW S \in SUBSET (1..len), NEW n \in Nat
    PROVE  /\ Oldest(S, n) \subseteq S /\ Cardinality(Oldest(S, n)) <= n
           /\ n > 0 => (Oldest(S, n) = {} <=> S = {})
<1>1. IsFiniteSet(S) /\ \A T \in SUBSET S : IsFiniteSet(T) /\ Cardinality(T) \in Nat
    <2>1. IsFiniteSet(1..len)
        BY FS_Interval
    <2>2. IsFiniteSet(S)
        BY <2>1, FS_Subset
    <2> QED
        BY <2>2, FS_Subset, FS_CardinalityType
<1>2. PICK T : T = Oldest(S, n)
    OBVIOUS
<1>3. T \subseteq S /\ \A i \in S : i \in T <=> Cardinality({j \in S : j < i}) < n
    BY <1>2 DEF Oldest
<1>4. Cardinality(T) <= n
    <2>1. CASE T = {}
        BY <2>1, FS_EmptySet
    <2>2. CASE T # {}
        <3>1. PICK m \in T : \A k \in T : k <= m
            BY <1>3, <2>2, LastExists
        <3>2. PICK B : B = {j \in S : j < m}
            OBVIOUS
        <3>3. T \ {m} \subseteq B /\ B \subseteq S
            BY <1>3, <3>1, <3>2
        <3>4. Cardinality(B) < n /\ Cardinality(B) \in Nat
            BY <1>1, <1>3, <3>1, <3>2
        <3>5. Cardinality(T \ {m}) <= Cardinality(B)
            BY <1>1, <3>3, FS_Subset
        <3>6. Cardinality(T \ {m}) = Cardinality(T) - 1
            BY <1>1, <1>3, <3>1, FS_RemoveElement
        <3>7. Cardinality(T) \in Nat
            BY <1>1, <1>3
        <3> QED
            BY <3>4, <3>5, <3>6, <3>7
    <2> QED
        BY <2>1, <2>2
<1>5. ASSUME n > 0, S # {} PROVE T # {}
    <2>1. PICK m \in S : \A k \in S : m <= k
        BY <1>5, FirstExists
    <2>2. \A j \in S : ~(j < m)
        <3>1. \A j \in S : j \in 1..len
            OBVIOUS
        <3> QED
            BY <2>1, <3>1
    <2>3. Cardinality({j \in S : j < m}) < n
        <3>1. {j \in S : j < m} = {}
            BY <2>2
        <3> QED
            BY <1>5, <3>1, FS_EmptySet
    <2> QED
        BY <1>3, <2>1, <2>3
<1> QED
    BY <1>2, <1>3, <1>4, <1>5

\* The horizon of a claim.
LEMMA EffectiveBounds ==
    ASSUME NEW limit \in Nat \ {0} PROVE effective(limit) \in 1..MAX_REPLAY_ROWS
<1>1. MAX_REPLAY_ROWS \in Nat \ {0}
    BY OutboxAssumption
<1>2. effective(limit) \in {limit, MAX_REPLAY_ROWS} /\ \A y \in {limit, MAX_REPLAY_ROWS} : effective(limit) <= y
    <2>1. \E x \in {limit, MAX_REPLAY_ROWS} : \A y \in {limit, MAX_REPLAY_ROWS} : x <= y
        BY <1>1
    <2> QED
        BY <2>1 DEF effective, Min
<1> QED
    BY <1>1, <1>2

\* The positions of the rows.
LEMMA OutboxDomain ==
    ASSUME RowsSound
    PROVE  Len(outbox) \in Nat /\ DOMAIN outbox = 1..Len(outbox)
BY DEF RowsSound

\* Steps that leave the rows alone: what the marks and the claims cover stays.
LEMMA RowsStay ==
    ASSUME OutboxInv, UNCHANGED outbox
    PROVE  /\ RowsSound' /\ dangling_claims' = dangling_claims
           /\ UNCHANGED <<marks, covered>> => MarksSound'
           /\ UNCHANGED claims => ClaimsSound'
<1>1. RowsSound' /\ dangling_claims' = dangling_claims
    BY DEF OutboxInv, RowsSound, dangling_claims
<1>2. ASSUME UNCHANGED <<marks, covered>> PROVE MarksSound'
    BY <1>2 DEF OutboxInv, MarksSound, dirty_entities, Of
<1>3. ASSUME UNCHANGED claims PROVE ClaimsSound'
    BY <1>1, <1>3 DEF OutboxInv, ClaimsSound
<1> QED
    BY <1>1, <1>2, <1>3

\* A step that changes one client, and no place of a receipt.
LEMMA ClientMoves ==
    ASSUME OutboxInv, NEW t \in Tokens, NEW c \in Client, client' = [client EXCEPT ![t] = c],
           DOMAIN claims \subseteq DOMAIN claims',
           c.ticket # Absent /\ c.ticket.op = "claim" =>
               c.ticket.limit \in 1..MAX_REPLAY_ROWS /\ c.ticket.id \in DOMAIN claims'
    PROVE  ClientsSound'
<1>1. client' \in [Tokens -> Client] /\ \A u \in Tokens : client'[u] = IF u = t THEN c ELSE client[u]
    BY DEF OutboxInv, ClientsSound
<1> QED
    BY <1>1 DEF OutboxInv, ClientsSound

\* A client stays as it is, or forgets rows.
LEMMA ClientForgets ==
    ASSUME OutboxInv, UNCHANGED claims, NEW t \in Tokens, NEW i,
           client' = client \/ client' = [client EXCEPT ![t].rows = @ \ {i}]
    PROVE  ClientsSound'
<1>1. CASE client' = client
    BY <1>1 DEF OutboxInv, ClientsSound
<1>2. CASE client' = [client EXCEPT ![t].rows = @ \ {i}]
    <2>1. client[t] \in Client
        BY DEF OutboxInv, ClientsSound
    <2>2. PICK c : c = [ticket |-> client[t].ticket, rows |-> client[t].rows \ {i}]
        OBVIOUS
    <2>3. c \in Client /\ client' = [client EXCEPT ![t] = c]
        BY <1>2, <2>1, <2>2 DEF Client, OutboxInv, ClientsSound
    <2>4. c.ticket = client[t].ticket
        BY <2>2
    <2>5. c.ticket # Absent /\ c.ticket.op = "claim" =>
              c.ticket.limit \in 1..MAX_REPLAY_ROWS /\ c.ticket.id \in DOMAIN claims
        BY <2>4 DEF OutboxInv, ClientsSound
    <2> QED
        BY <2>3, <2>5, ClientMoves
<1> QED
    BY <1>1, <1>2

\* A row is rewritten for the same entity, and is not newly claimed.
LEMMA RowRewritten ==
    ASSUME OutboxInv, NEW i \in DOMAIN outbox, NEW r, RowSound(r), r.entity = outbox[i].entity,
           outbox' = [outbox EXCEPT ![i] = r], r.status # "claimed",
           UNCHANGED <<marks, claims, covered>>
    PROVE  RowsSound' /\ ClaimsSound' /\ MarksSound'
<1>1. outbox \in Seq(OutRow) /\ r \in OutRow
    BY DEF OutboxInv, RowsSound, RowSound
<1>2. outbox' \in Seq(OutRow) /\ DOMAIN outbox' = DOMAIN outbox
    BY <1>1
<1>3. \A k \in DOMAIN outbox : outbox'[k] = IF k = i THEN r ELSE outbox[k]
    BY <1>1
<1>4. RowsSound'
    <2>1. DOMAIN outbox \subseteq 1..MaxRows /\ \A k \in DOMAIN outbox : RowSound(outbox[k])
        BY DEF OutboxInv, RowsSound
    <2>2. ASSUME NEW k \in DOMAIN outbox' PROVE RowSound(outbox'[k])
        BY <1>2, <1>3, <2>1
    <2>3. RowsSound' <=> /\ outbox' \in Seq(OutRow) /\ DOMAIN outbox' \subseteq 1..MaxRows
                         /\ \A k \in DOMAIN outbox' : RowSound(outbox'[k])
        BY DEF RowsSound, RowSound
    <2> QED
        BY <1>2, <2>1, <2>2, <2>3
<1>5. dangling_claims' \subseteq dangling_claims
    BY <1>2, <1>3 DEF dangling_claims
<1>6. \A e \in Entities : Of(e)' = Of(e)
    BY <1>2, <1>3 DEF Of
<1>7. ClaimsSound'
    BY <1>5 DEF OutboxInv, ClaimsSound
<1>8. MarksSound'
    BY <1>6 DEF OutboxInv, MarksSound, dirty_entities
<1> QED
    BY <1>4, <1>7, <1>8

\* The steps around a ticket that write nothing, and death.
LEMMA TicketSteps ==
    ASSUME OutboxInv, NEW t \in Tokens,
           \/ \E e \in Entities : prepare_insert(t, e)
           \/ insert_refused(t) \/ ClientDies(t)
    PROVE  OutboxInv'
<1>1. client[t] \in Client /\ UNCHANGED <<outbox, marks, claims, covered>>
    BY DEF OutboxInv, ClientsSound, prepare_insert, insert_refused, ClientDies
<1>2. RowsSound' /\ ClaimsSound' /\ MarksSound'
    BY <1>1, RowsStay
<1>3. ClientsSound'
    <2>1. CASE \E e \in Entities : prepare_insert(t, e)
        <3>1. PICK e \in Entities : prepare_insert(t, e)
            BY <2>1
        <3>2. PICK c : c = [ticket |-> [op |-> "insert", entity |-> e, row |-> 0], rows |-> client[t].rows]
            OBVIOUS
        <3>3. [op |-> "insert", entity |-> e, row |-> 0] \in Ticket /\ c.ticket.op = "insert"
            BY <3>2 DEF Ticket
        <3>4. c \in Client
            BY <1>1, <3>2, <3>3 DEF Client
        <3>5. client' = [client EXCEPT ![t] = c]
            <4>1. c = [client[t] EXCEPT !.ticket = [op |-> "insert", entity |-> e, row |-> 0]]
                BY <1>1, <3>2 DEF Client
            <4> QED
                BY <3>1, <4>1 DEF prepare_insert
        <3> QED
            BY <1>1, <3>3, <3>4, <3>5, ClientMoves
    <2>2. CASE insert_refused(t) \/ ClientDies(t)
        <3>1. PICK c : c = [ticket |-> Absent, rows |-> IF ClientDies(t) THEN {} ELSE client[t].rows]
            OBVIOUS
        <3>2. c \in Client /\ client' = [client EXCEPT ![t] = c]
            <4>1. CASE ClientDies(t)
                BY <1>1, <3>1, <4>1 DEF ClientDies, Fresh_client, Client
            <4>2. CASE ~ClientDies(t)
                BY <1>1, <2>2, <3>1, <4>2 DEF insert_refused, Client, OutboxInv, ClientsSound
            <4> QED
                BY <4>1, <4>2
        <3> QED
            BY <1>1, <3>1, <3>2, ClientMoves
    <2> QED
        BY <2>1, <2>2
<1> QED
    BY <1>2, <1>3 DEF OutboxInv

\* A claim ticket is made, with a place for its receipt.
LEMMA PrepareClaimStep ==
    ASSUME OutboxInv, NEW t \in Tokens, NEW limit \in Limits, prepare_claim(t, limit)
    PROVE  OutboxInv'
<1>1. claims \in Seq({Absent} \cup SUBSET Nat) /\ client[t] \in Client
    BY DEF OutboxInv, ClaimsSound, ClientsSound
<1>2. /\ claims' = Append(claims, Absent) /\ claims' \in Seq({Absent} \cup SUBSET Nat)
      /\ Len(claims) \in Nat /\ DOMAIN claims = 1..Len(claims) /\ DOMAIN claims' = 1..(Len(claims) + 1)
      /\ \A n \in DOMAIN claims : claims'[n] = claims[n]
      /\ claims'[Len(claims) + 1] = Absent /\ Len(claims') = Len(claims) + 1
    BY <1>1 DEF prepare_claim
<1>3. RowsSound' /\ MarksSound' /\ dangling_claims' = dangling_claims
    BY RowsStay DEF prepare_claim
<1>4. ClaimsSound'
    <2>1. \A n \in DOMAIN claims' : claims'[n] # Absent => n \in DOMAIN claims /\ claims'[n] = claims[n]
        BY <1>2
    <2>2. \A i \in dangling_claims : \E n \in DOMAIN claims' : claims'[n] # Absent /\ i \in claims'[n]
        BY <1>2 DEF OutboxInv, ClaimsSound
    <2>3. \A n \in DOMAIN claims' : claims'[n] # Absent => Cardinality(claims'[n]) <= MAX_REPLAY_ROWS
        BY <2>1 DEF OutboxInv, ClaimsSound
    <2> QED
        BY <1>2, <1>3, <2>2, <2>3 DEF ClaimsSound
<1>5. ClientsSound'
    <2>1. PICK k : k = [op |-> "claim", limit |-> effective(limit), id |-> Len(claims')]
        OBVIOUS
    <2>2. limit \in Nat \ {0}
        BY OutboxAssumption DEF prepare_claim
    <2>3. effective(limit) \in 1..MAX_REPLAY_ROWS /\ MAX_REPLAY_ROWS \in Nat
        BY <2>2, EffectiveBounds, OutboxAssumption
    <2>4. effective(limit) \in Nat /\ Len(claims') \in Nat
        BY <1>2, <2>3
    <2>5. k \in Ticket
        BY <2>1, <2>4 DEF Ticket
    <2>6. PICK c : c = [ticket |-> k, rows |-> client[t].rows]
        OBVIOUS
    <2>7. c \in Client /\ client' = [client EXCEPT ![t] = c]
        <3>1. c \in Client
            BY <1>1, <2>5, <2>6 DEF Client
        <3>2. client' = [client EXCEPT ![t].ticket = k]
            BY <2>1 DEF prepare_claim
        <3>3. c = [client[t] EXCEPT !.ticket = k]
            BY <1>1, <2>6 DEF Client
        <3>4. client' = [client EXCEPT ![t] = c]
            BY <3>2, <3>3
        <3> QED
            BY <3>1, <3>4
    <2>8. c.ticket.limit \in 1..MAX_REPLAY_ROWS /\ c.ticket.id \in DOMAIN claims'
        BY <1>2, <2>1, <2>3, <2>6
    <2>9. DOMAIN claims \subseteq DOMAIN claims'
        BY <1>2
    <2> QED
        BY <2>7, <2>8, <2>9, ClientMoves
<1> QED
    BY <1>3, <1>4, <1>5 DEF OutboxInv

\* A row is added to the end, its entity marked.
LEMMA RowAdded ==
    ASSUME OutboxInv, NEW e \in Entities, Len(outbox) < MaxRows,
           outbox' = Append(outbox, [entity |-> e, status |-> "queued", by |-> Absent, acker |-> Absent]),
           marks' = dirtied(e), UNCHANGED <<claims, covered>>
    PROVE  RowsSound' /\ ClaimsSound' /\ MarksSound' /\ Len(outbox') \in Nat
<1>1. PICK r : r = [entity |-> e, status |-> "queued", by |-> Absent, acker |-> Absent]
    OBVIOUS
<1>2. RowSound(r) /\ r \in OutRow /\ r.entity = e /\ r.status = "queued"
    BY <1>1 DEF RowSound, OutRow
<1>3. outbox \in Seq(OutRow) /\ outbox' = Append(outbox, r)
    BY <1>1 DEF OutboxInv, RowsSound
<1>4. /\ outbox' \in Seq(OutRow) /\ Len(outbox) \in Nat /\ Len(outbox') = Len(outbox) + 1
      /\ DOMAIN outbox = 1..Len(outbox) /\ DOMAIN outbox' = 1..(Len(outbox) + 1)
      /\ \A i \in DOMAIN outbox : outbox'[i] = outbox[i]
      /\ outbox'[Len(outbox) + 1] = r
    BY <1>2, <1>3
<1>5. DOMAIN outbox' = DOMAIN outbox \cup {Len(outbox) + 1} /\ Len(outbox) + 1 \notin DOMAIN outbox
    BY <1>4
<1>6. RowsSound'
    <2>1. \A i \in DOMAIN outbox : RowSound(outbox[i])
        BY DEF OutboxInv, RowsSound
    <2>2. \A i \in DOMAIN outbox' : RowSound(outbox'[i])
        BY <1>2, <1>4, <1>5, <2>1
    <2>3. RowsSound' <=> /\ outbox' \in Seq(OutRow) /\ DOMAIN outbox' \subseteq 1..MaxRows
                         /\ \A i \in DOMAIN outbox' : RowSound(outbox'[i])
        BY DEF RowsSound, RowSound
    <2>4. DOMAIN outbox' \subseteq 1..MaxRows
        <3>1. Len(outbox) < MaxRows /\ MaxRows \in Nat
            BY OutboxAssumption
        <3>2. 1..(Len(outbox) + 1) \subseteq 1..MaxRows
            BY <1>4, <3>1
        <3> QED
            BY <1>4, <3>2
    <2> QED
        BY <1>4, <2>2, <2>3, <2>4
<1>7. dangling_claims' = dangling_claims
    BY <1>2, <1>4, <1>5 DEF dangling_claims
<1>8. ClaimsSound'
    BY <1>7 DEF OutboxInv, ClaimsSound
<1>9. MarksSound'
    <2>1. marks' \in [Entities -> {Absent} \cup [dirty : BOOLEAN]]
        BY DEF OutboxInv, MarksSound, dirtied
    <2>2. marks'[e] = [dirty |-> TRUE] /\ \A d \in Entities : d # e => marks'[d] = marks[d]
        BY DEF OutboxInv, MarksSound, dirtied
    <2>3. marks'[e] # Absent /\ marks'[e].dirty
        <3>1. [dirty |-> TRUE] \in [dirty : BOOLEAN]
            OBVIOUS
        <3> QED
            BY <2>2, <3>1, OutboxAssumption
    <2>4. ASSUME NEW d \in Entities, d \notin dirty_entities'
          PROVE  d # e /\ d \notin dirty_entities /\ Of(d)' = Of(d)
        <3>1. d # e /\ d \notin dirty_entities
            BY <2>2, <2>3, <2>4 DEF dirty_entities
        <3>2. Of(d)' = Of(d)
            BY <1>2, <1>4, <1>5, <3>1 DEF Of
        <3> QED
            BY <3>1, <3>2
    <2>5. ASSUME NEW d \in Entities, d \notin dirty_entities'
          PROVE  covered'[d] = Cardinality(Of(d)')
        BY <2>4, <2>5 DEF OutboxInv, MarksSound
    <2>6. covered' \in [Entities -> Nat]
        BY DEF OutboxInv, MarksSound
    <2> QED
        BY <2>1, <2>5, <2>6 DEF MarksSound
<1> QED
    BY <1>4, <1>6, <1>8, <1>9

\* An insert, first or again.
LEMMA InsertStep == ASSUME OutboxInv, NEW t \in Tokens, insert(t) PROVE OutboxInv'
<1>1. client[t] \in Client
    BY DEF OutboxInv, ClientsSound
<1>2. PICK k : k = client[t].ticket
    OBVIOUS
<1>3. k \in [op : {"insert"}, entity : Entities, row : Nat] /\ k # Absent /\ UNCHANGED <<claims, covered>>
    BY <1>1, <1>2 DEF insert, Client, Ticket
<1>4. CASE k.row # 0
    <2>1. UNCHANGED <<outbox, marks>> /\ client' = [client EXCEPT ![t].ticket = Absent]
        BY <1>2, <1>4 DEF insert
    <2>2. PICK c : c = [ticket |-> Absent, rows |-> client[t].rows]
        OBVIOUS
    <2>3. c \in Client
        BY <1>1, <2>2 DEF Client
    <2>4. c = [client[t] EXCEPT !.ticket = Absent]
        BY <1>1, <2>2 DEF Client
    <2>5. client' = [client EXCEPT ![t] = c]
        BY <2>1, <2>4
    <2> QED
        BY <1>3, <2>1, <2>2, <2>3, <2>5, ClientMoves, RowsStay DEF OutboxInv
<1>5. CASE k.row = 0
    <2>1. /\ outbox' = Append(outbox, [entity |-> k.entity, status |-> "queued", by |-> Absent, acker |-> Absent])
          /\ marks' = dirtied(k.entity)
          /\ k.entity \in Entities /\ Len(outbox) < MaxRows
        BY <1>2, <1>3, <1>5 DEF insert
    <2>2. RowsSound' /\ ClaimsSound' /\ MarksSound' /\ Len(outbox') \in Nat
        BY <1>3, <2>1, RowAdded
    <2>3. \E lost \in BOOLEAN :
              client' = [client EXCEPT ![t].ticket = IF lost THEN [k EXCEPT !.row = Len(outbox')] ELSE Absent]
        BY <1>2, <1>5 DEF insert
    <2>4. PICK lost \in BOOLEAN :
              client' = [client EXCEPT ![t].ticket = IF lost THEN [k EXCEPT !.row = Len(outbox')] ELSE Absent]
        BY <2>3
    <2>5. PICK n : n = IF lost THEN [k EXCEPT !.row = Len(outbox')] ELSE Absent
        OBVIOUS
    <2>6. n = Absent \/ (n \in Ticket /\ n.op = "insert")
        <3>1. ASSUME lost
              PROVE  n \in [op : {"insert"}, entity : Entities, row : Nat] /\ n.op = "insert"
            BY <1>3, <2>2, <2>5, <3>1
        <3> QED
            BY <2>5, <3>1 DEF Ticket
    <2>7. PICK c : c = [ticket |-> n, rows |-> client[t].rows]
        OBVIOUS
    <2>8. c \in Client
        BY <1>1, <2>6, <2>7 DEF Client
    <2>9. c = [client[t] EXCEPT !.ticket = n]
        BY <1>1, <2>7 DEF Client
    <2>10. client' = [client EXCEPT ![t] = c]
        BY <2>4, <2>5, <2>9
    <2>11. ClientsSound'
        BY <1>3, <2>6, <2>7, <2>8, <2>10, ClientMoves
    <2> QED
        BY <2>2, <2>11 DEF OutboxInv
<1>6. k.row = 0 \/ k.row # 0
    OBVIOUS
<1> QED
    BY <1>4, <1>5, <1>6

\* Acknowledgments and requeues.
LEMMA RowSteps ==
    ASSUME OutboxInv, NEW t \in Tokens, NEW i,
           acknowledge(t, i) \/ (i \in DOMAIN outbox /\ requeue_claim(i, t))
    PROVE  OutboxInv'
<1>1. UNCHANGED <<marks, claims, covered>>
    BY DEF acknowledge, requeue_claim
<1>2. ClientsSound'
    <2>1. client' = client \/ client' = [client EXCEPT ![t].rows = @ \ {i}]
        BY DEF acknowledge, requeue_claim
    <2> QED
        BY <1>1, <2>1, ClientForgets
<1>3. RowsSound' /\ ClaimsSound' /\ MarksSound'
    <2>1. CASE outbox' = outbox
        BY <1>1, <2>1, RowsStay
    <2>2. CASE i \in DOMAIN outbox /\ outbox' # outbox
        <3>1. RowSound(outbox[i]) /\ outbox[i] \in OutRow /\ outbox \in Seq(OutRow)
            BY <2>2 DEF OutboxInv, RowsSound, RowSound
        <3>2. Owned(i, t)
            BY <2>2 DEF acknowledge, requeue_claim
        <3>3. \E r : RowSound(r) /\ r.entity = outbox[i].entity /\ r.status # "claimed"
                     /\ outbox' = [outbox EXCEPT ![i] = r]
            <4>1. CASE acknowledge(t, i)
                <5>1. PICK r : r = [outbox[i] EXCEPT !.status = "acked", !.acker = t]
                    OBVIOUS
                <5>2. r \in OutRow /\ r.entity = outbox[i].entity /\ r.status = "acked" /\ r.acker = t /\ r.by = t
                    BY <3>1, <3>2, <5>1 DEF OutRow, Owned
                <5>3. outbox' = [outbox EXCEPT ![i] = r]
                    BY <2>2, <3>1, <3>2, <4>1, <5>1 DEF acknowledge
                <5>4. RowSound(r)
                    BY <5>2, OutboxAssumption DEF RowSound
                <5> QED
                    BY <5>2, <5>3, <5>4
            <4>2. CASE requeue_claim(i, t)
                <5>1. PICK r : r = [outbox[i] EXCEPT !.status = "queued", !.by = Absent]
                    OBVIOUS
                <5>2. /\ r \in OutRow /\ r.entity = outbox[i].entity /\ r.status = "queued"
                      /\ r.acker = outbox[i].acker /\ r.by = Absent
                    BY <3>1, <5>1 DEF OutRow
                <5>3. outbox[i].acker = Absent
                    BY <3>1, <3>2 DEF Owned, RowSound
                <5>4. outbox' = [outbox EXCEPT ![i] = r]
                    BY <3>1, <4>2, <5>1 DEF requeue_claim
                <5>5. RowSound(r)
                    BY <5>2, <5>3 DEF RowSound
                <5> QED
                    BY <5>2, <5>4, <5>5
            <4> QED
                BY <4>1, <4>2
        <3> QED
            BY <1>1, <2>2, <3>3, RowRewritten
    <2>3. CASE i \notin DOMAIN outbox
        <3>1. outbox' = outbox
            BY <2>3 DEF OutboxInv, RowsSound, acknowledge
        <3> QED
            BY <1>1, <3>1, RowsStay
    <2> QED
        BY <2>1, <2>2, <2>3
<1> QED
    BY <1>2, <1>3 DEF OutboxInv

\* A recalculation covers the rows there are; a checkpoint changes sizes only.
LEMMA MarkSteps ==
    ASSUME OutboxInv, (\E e \in Entities : mark_recalculated(e)) \/ checkpoint_wal
    PROVE  OutboxInv'
<1>1. UNCHANGED <<outbox, claims, client>>
    BY DEF mark_recalculated, checkpoint_wal
<1>2. ClientsSound'
    BY <1>1 DEF OutboxInv, ClientsSound
<1>3. MarksSound'
    <2>1. CASE checkpoint_wal
        BY <2>1, RowsStay DEF checkpoint_wal
    <2>2. CASE \E e \in Entities : mark_recalculated(e)
        <3>1. PICK e \in Entities : mark_recalculated(e)
            BY <2>2
        <3>2. marks[e] \in [dirty : BOOLEAN]
            BY <3>1 DEF OutboxInv, MarksSound, mark_recalculated
        <3>3. /\ marks' \in [Entities -> {Absent} \cup [dirty : BOOLEAN]]
              /\ \A d \in Entities : d # e => marks'[d] = marks[d]
            BY <3>1, <3>2 DEF OutboxInv, MarksSound, mark_recalculated
        <3>4. \A d \in Entities : Of(d)' = Of(d)
            BY <1>1 DEF Of
        <3>5. Cardinality(Of(e)) \in Nat
            <4>1. Of(e) \subseteq 1..Len(outbox) /\ Len(outbox) \in Nat
                BY OutboxDomain DEF Of, OutboxInv
            <4>2. IsFiniteSet(1..Len(outbox))
                BY <4>1, FS_Interval
            <4> QED
                BY <4>1, <4>2, FS_Subset, FS_CardinalityType
        <3>6. /\ covered' \in [Entities -> Nat] /\ covered'[e] = Cardinality(Of(e))
              /\ \A d \in Entities : d # e => covered'[d] = covered[d]
            BY <3>1, <3>5 DEF OutboxInv, MarksSound, mark_recalculated
        <3>7. ASSUME NEW d \in Entities, d \notin dirty_entities'
              PROVE  covered'[d] = Cardinality(Of(d)')
            <4>1. CASE d = e
                BY <3>4, <3>6, <4>1
            <4>2. CASE d # e
                <5>1. d \notin dirty_entities
                    BY <3>3, <3>7, <4>2 DEF dirty_entities
                <5> QED
                    BY <3>4, <3>6, <4>2, <5>1 DEF OutboxInv, MarksSound
            <4> QED
                BY <4>1, <4>2
        <3> QED
            BY <3>3, <3>6, <3>7 DEF MarksSound
    <2> QED
        BY <2>1, <2>2
<1> QED
    BY <1>1, <1>2, <1>3, RowsStay DEF OutboxInv

\* The rows a claim takes.
LEMMA ClaimTakes ==
    ASSUME OutboxInv, NEW limit \in 1..MAX_REPLAY_ROWS, NEW now, now = Oldest(Queued, limit)
    PROVE  now \subseteq Queued /\ now \subseteq Nat /\ Cardinality(now) <= MAX_REPLAY_ROWS
<1>1. PICK len : len = Len(outbox)
    OBVIOUS
<1>2. len \in Nat /\ Queued \in SUBSET (1..len)
    BY <1>1, OutboxDomain DEF OutboxInv, Queued
<1>3. MAX_REPLAY_ROWS \in Nat /\ limit \in Nat /\ limit <= MAX_REPLAY_ROWS
    BY OutboxAssumption
<1>4. now \subseteq Queued /\ Cardinality(now) <= limit
    BY <1>2, <1>3, OldestBounds
<1>5. Cardinality(now) \in Nat
    <2>1. IsFiniteSet(1..len)
        BY <1>2, FS_Interval
    <2> QED
        BY <1>2, <1>4, <2>1, FS_Subset, FS_CardinalityType
<1> QED
    <2>1. now \subseteq Nat
        <3>1. now \subseteq 1..len
            BY <1>2, <1>4
        <3>2. 1..len \subseteq Nat
            BY <1>2
        <3> QED
            BY <3>1, <3>2
    <2>2. Cardinality(now) <= MAX_REPLAY_ROWS
        BY <1>3, <1>4, <1>5
    <2> QED
        BY <1>4, <2>1, <2>2

\* A sequence with one element replaced.
LEMMA SeqPut ==
    ASSUME NEW S, NEW s \in Seq(S), NEW n \in DOMAIN s, NEW e \in S
    PROVE  /\ [s EXCEPT ![n] = e] \in Seq(S) /\ DOMAIN [s EXCEPT ![n] = e] = DOMAIN s
           /\ [s EXCEPT ![n] = e][n] = e
           /\ \A m \in DOMAIN s : m # n => [s EXCEPT ![n] = e][m] = s[m]
  OBVIOUS

\* A function on an initial interval is a sequence.
LEMMA SeqOf ==
    ASSUME NEW S, NEW len \in Nat, NEW f, f \in [1..len -> S]
    PROVE  f \in Seq(S)
BY SeqDef

\* A claim that commits: the rows it takes become its token's, and its receipt
\* names them.
LEMMA RowsClaimed ==
    ASSUME OutboxInv, NEW t \in Tokens, NEW n \in DOMAIN claims, claims[n] = Absent,
           NEW now \in SUBSET Queued, now \subseteq Nat, Cardinality(now) <= MAX_REPLAY_ROWS,
           outbox' = [i \in DOMAIN outbox |->
                         IF i \in now THEN [outbox[i] EXCEPT !.status = "claimed", !.by = t]
                         ELSE outbox[i]],
           claims' = [claims EXCEPT ![n] = now], UNCHANGED <<marks, covered>>
    PROVE  RowsSound' /\ ClaimsSound' /\ MarksSound' /\ DOMAIN claims' = DOMAIN claims
<1>1. /\ MAX_REPLAY_ROWS \in Nat /\ Absent \notin Tokens
      /\ \A rows \in SUBSET (1..MaxRows) : rows # Absent
    BY OutboxAssumption
<1>2. /\ Len(outbox) \in Nat /\ DOMAIN outbox = 1..Len(outbox) /\ outbox \in Seq(OutRow)
      /\ DOMAIN outbox \subseteq 1..MaxRows
    BY OutboxDomain DEF OutboxInv, RowsSound
<1>3. now \subseteq Queued /\ Cardinality(now) <= MAX_REPLAY_ROWS
    OBVIOUS
<1>4. now \subseteq Nat /\ now # Absent
    <2>1. now \in SUBSET (1..MaxRows)
        BY <1>2, <1>3 DEF Queued
    <2> QED
        BY <1>1, <2>1
<1>5. claims \in Seq({Absent} \cup SUBSET Nat)
    BY DEF OutboxInv, ClaimsSound
<1>6. /\ claims \in Seq({Absent} \cup SUBSET Nat)
      /\ claims' \in Seq({Absent} \cup SUBSET Nat) /\ DOMAIN claims' = DOMAIN claims
      /\ claims'[n] = now /\ \A m \in DOMAIN claims : m # n => claims'[m] = claims[m]
    <2>1. PICK S : S = {Absent} \cup SUBSET Nat
        OBVIOUS
    <2>2. now \in S /\ claims \in Seq(S)
        BY <1>4, <1>5, <2>1
    <2>3. claims' = [claims EXCEPT ![n] = now] /\ n \in DOMAIN claims
        OBVIOUS
    <2>4. PICK c : c = [claims EXCEPT ![n] = now]
        OBVIOUS
    <2>5. /\ c \in Seq(S) /\ DOMAIN c = DOMAIN claims
          /\ c[n] = now /\ \A m \in DOMAIN claims : m # n => c[m] = claims[m]
        BY <2>2, <2>4, SeqPut
    <2> QED
        BY <1>5, <2>1, <2>3, <2>4, <2>5
<1>7. ASSUME NEW i \in DOMAIN outbox
      PROVE  /\ RowSound(outbox'[i]) /\ outbox'[i].entity = outbox[i].entity
             /\ i \in now => outbox'[i].status = "claimed"
             /\ i \notin now => outbox'[i] = outbox[i]
    <2>1. RowSound(outbox[i]) /\ outbox[i] \in OutRow
        BY DEF OutboxInv, RowsSound, RowSound
    <2>2. CASE i \in now
        <3>1. PICK r : r = [outbox[i] EXCEPT !.status = "claimed", !.by = t]
            OBVIOUS
        <3>2. outbox[i].status = "queued"
            BY <1>3, <2>2 DEF Queued
        <3>3. /\ r \in OutRow /\ r.status = "claimed" /\ r.by = t /\ r.acker = outbox[i].acker
              /\ r.entity = outbox[i].entity
            BY <2>1, <3>1 DEF OutRow
        <3>4. outbox[i].acker = Absent
            BY <2>1, <3>2 DEF RowSound
        <3>5. RowSound(r)
            BY <1>1, <3>3, <3>4 DEF RowSound
        <3>6. outbox'[i] = r
            BY <2>2, <3>1
        <3> QED
            BY <2>2, <3>3, <3>5, <3>6
    <2>3. CASE i \notin now
        BY <2>1, <2>3
    <2> QED
        BY <2>2, <2>3
<1>8. RowsSound'
    <2>1. DOMAIN outbox' = 1..Len(outbox) /\ \A i \in 1..Len(outbox) : outbox'[i] \in OutRow
        BY <1>2, <1>7 DEF RowSound
    <2>2. PICK len : len = Len(outbox)
        OBVIOUS
    <2>3. outbox' \in Seq(OutRow)
        <3>1. outbox' \in [1..len -> OutRow] /\ len \in Nat
            BY <1>2, <2>1, <2>2
        <3> QED
            BY <3>1, SeqOf
    <2>4. RowsSound' <=> /\ outbox' \in Seq(OutRow) /\ DOMAIN outbox' \subseteq 1..MaxRows
                         /\ \A i \in DOMAIN outbox' : RowSound(outbox'[i])
        BY DEF RowsSound, RowSound
    <2> QED
        BY <1>2, <1>7, <2>1, <2>3, <2>4
<1>9. DOMAIN outbox' = DOMAIN outbox
    OBVIOUS
<1>10. ClaimsSound'
    <2>1. ASSUME NEW i \in dangling_claims'
          PROVE  \E m \in DOMAIN claims' : claims'[m] # Absent /\ i \in claims'[m]
        <3>1. i \in DOMAIN outbox /\ outbox'[i].status = "claimed"
            BY <1>9, <2>1 DEF dangling_claims
        <3>2. CASE i \in now
            BY <1>4, <1>6, <3>2
        <3>3. CASE i \notin now
            <4>1. i \in dangling_claims
                BY <1>7, <3>1, <3>3 DEF dangling_claims
            <4>2. PICK m \in DOMAIN claims : claims[m] # Absent /\ i \in claims[m]
                BY <4>1 DEF OutboxInv, ClaimsSound
            <4>3. m # n
                BY <4>2
            <4> QED
                BY <1>6, <4>2, <4>3
        <3> QED
            BY <3>2, <3>3
    <2>2. ASSUME NEW m \in DOMAIN claims', claims'[m] # Absent
          PROVE  Cardinality(claims'[m]) <= MAX_REPLAY_ROWS
        <3>1. CASE m = n
            BY <1>3, <1>6, <3>1
        <3>2. CASE m # n
            BY <1>6, <2>2, <3>2 DEF OutboxInv, ClaimsSound
        <3> QED
            BY <3>1, <3>2
    <2> QED
        BY <1>6, <2>1, <2>2 DEF ClaimsSound
<1>11. MarksSound'
    <2>1. \A e \in Entities : Of(e)' = Of(e)
        BY <1>7, <1>9 DEF Of
    <2> QED
        BY <2>1 DEF OutboxInv, MarksSound, dirty_entities
<1> QED
    BY <1>6, <1>8, <1>10, <1>11

\* A claim, first or again.
LEMMA ClaimStep == ASSUME OutboxInv, NEW t \in Tokens, claim_queued(t) PROVE OutboxInv'
<1>1. client[t] \in Client /\ client[t].ticket # Absent /\ client[t].ticket.op = "claim"
    BY DEF OutboxInv, ClientsSound, claim_queued
<1>2. PICK k : k = client[t].ticket
    OBVIOUS
<1>3. k.limit \in 1..MAX_REPLAY_ROWS /\ k.id \in DOMAIN claims
    BY <1>1, <1>2 DEF OutboxInv, ClientsSound
<1>4. \A rows \in SUBSET Nat : [ticket |-> Absent, rows |-> rows] \in Client
    BY DEF Client
<1>5. CASE claimed_before(k)
    <2>1. UNCHANGED <<outbox, marks, claims, covered>>
        BY <1>2, <1>5 DEF claim_queued
    <2>2. client' = [client EXCEPT ![t] = [ticket |-> Absent, rows |-> client[t].rows \cup claims[k.id]]]
        BY <1>1, <1>2, <1>5 DEF claim_queued, OutboxInv, ClientsSound
    <2>3. client[t].rows \cup claims[k.id] \in SUBSET Nat
        BY <1>1, <1>3, <1>5 DEF claimed_before, OutboxInv, ClaimsSound, Client
    <2> QED
        BY <1>4, <2>1, <2>2, <2>3, ClientMoves, RowsStay DEF OutboxInv
<1>6. CASE ~claimed_before(k)
    <2>1. PICK now : now = Oldest(Queued, k.limit)
        OBVIOUS
    <2>2. /\ outbox' = [i \in DOMAIN outbox |->
                            IF i \in now THEN [outbox[i] EXCEPT !.status = "claimed", !.by = t]
                            ELSE outbox[i]]
          /\ claims' = [claims EXCEPT ![k.id] = now]
          /\ UNCHANGED <<marks, covered>>
        BY <1>2, <1>6, <2>1 DEF claim_queued
    <2>3. claims[k.id] = Absent
        BY <1>6 DEF claimed_before
    <2>7. now \in SUBSET Queued /\ now \subseteq Nat /\ Cardinality(now) <= MAX_REPLAY_ROWS
        BY <1>3, <2>1, ClaimTakes
    <2>4. RowsSound' /\ ClaimsSound' /\ MarksSound' /\ now \subseteq Nat /\ DOMAIN claims' = DOMAIN claims
        BY <1>3, <2>2, <2>3, <2>7, RowsClaimed
    <2>5. \/ client' = client
          \/ client' = [client EXCEPT ![t] = [ticket |-> Absent, rows |-> client[t].rows \cup now]]
        BY <1>1, <1>2, <1>6, <2>1 DEF claim_queued, OutboxInv, ClientsSound
    <2>6. ClientsSound'
        <3>1. CASE client' = client
            BY <2>4, <3>1 DEF OutboxInv, ClientsSound
        <3>2. CASE client' = [client EXCEPT ![t] = [ticket |-> Absent, rows |-> client[t].rows \cup now]]
            <4>1. client[t].rows \cup now \in SUBSET Nat
                BY <1>1, <2>4 DEF Client
            <4> QED
                BY <1>4, <2>4, <3>2, <4>1, ClientMoves
        <3> QED
            BY <2>5, <3>1, <3>2
    <2> QED
        BY <2>4, <2>6 DEF OutboxInv
<1> QED
    BY <1>5, <1>6

\* The empty outbox.
LEMMA OutboxStarts == OutboxInit => OutboxInv
<1> SUFFICES ASSUME OutboxInit PROVE OutboxInv
    OBVIOUS
<1>1. RowsSound /\ DOMAIN outbox = {}
    BY DEF OutboxInit, RowsSound
<1>2. ClaimsSound
    BY <1>1 DEF OutboxInit, ClaimsSound, dangling_claims
<1>3. MarksSound
    <2>1. \A e \in Entities : Of(e) = {}
        BY <1>1 DEF Of
    <2> QED
        BY <2>1, FS_EmptySet DEF OutboxInit, MarksSound
<1>4. ClientsSound
    BY DEF OutboxInit, ClientsSound, Fresh_client, Client
<1> QED
    BY <1>1, <1>2, <1>3, <1>4 DEF OutboxInv

\* What a reader of the queue is told follows from the invariant.
LEMMA OutboxReported == OutboxInv => OutboxSound
<1> SUFFICES ASSUME OutboxInv PROVE OutboxSound
    OBVIOUS
<1>0. PICK len : len = Len(outbox)
    OBVIOUS
<1>1. len \in Nat /\ DOMAIN outbox = 1..len
    BY <1>0, OutboxDomain DEF OutboxInv
<1>2. IsFiniteSet(1..len)
    BY <1>1, FS_Interval
<1>3. \A S \in SUBSET (1..len) : IsFiniteSet(S) /\ Cardinality(S) \in Nat
    BY <1>2, FS_Subset, FS_CardinalityType
<1>4. Queued \in SUBSET (1..len) /\ dangling_claims \in SUBSET (1..len)
    BY <1>1 DEF Queued, dangling_claims
<1>5. report.queued + report.claimed + report.acked = Len(outbox)
    <2>1. PICK U : U = Queued \cup dangling_claims
        OBVIOUS
    <2>2. Queued \cap dangling_claims = {}
        BY DEF Queued, dangling_claims
    <2>3. Cardinality(U) = Cardinality(Queued) + Cardinality(dangling_claims)
        <3>1. IsFiniteSet(Queued) /\ IsFiniteSet(dangling_claims)
            BY <1>3, <1>4
        <3>2. Cardinality(U) = Cardinality(Queued) + Cardinality(dangling_claims)
                                   - Cardinality(Queued \cap dangling_claims)
            BY <2>1, <3>1, FS_Union
        <3>3. Cardinality(Queued \cap dangling_claims) = 0
            BY <2>2, FS_EmptySet
        <3>4. Cardinality(Queued) \in Nat /\ Cardinality(dangling_claims) \in Nat
            BY <1>3, <1>4
        <3> QED
            BY <3>2, <3>3, <3>4
    <2>4. /\ report.queued = Cardinality(Queued) /\ report.claimed = Cardinality(dangling_claims)
          /\ report.acked = Len(outbox) - Cardinality(U)
        BY <2>1 DEF report
    <2>5. Cardinality(Queued) \in Nat /\ Cardinality(dangling_claims) \in Nat
        BY <1>3, <1>4
    <2> QED
        BY <1>0, <1>1, <2>3, <2>4, <2>5
<1>6. ASSUME NEW limit \in Limits \ {0} PROVE replay_queued(limit) = {} <=> Queued = {}
    <2>1. limit \in Nat \ {0} /\ MAX_REPLAY_ROWS \in Nat
        BY OutboxAssumption
    <2>2. effective(limit) \in 1..MAX_REPLAY_ROWS
        BY <2>1, EffectiveBounds
    <2>3. effective(limit) \in Nat /\ effective(limit) > 0
        BY <2>1, <2>2
    <2> QED
        BY <1>1, <1>4, <2>3, OldestBounds DEF replay_queued
<1>7. ASSUME NEW i \in DOMAIN outbox
      PROVE  /\ outbox[i].status = "queued" <=> outbox[i].by = Absent
             /\ outbox[i].status = "acked" <=> outbox[i].acker # Absent
             /\ outbox[i].status = "acked" => outbox[i].acker = outbox[i].by
             /\ outbox[i].entity \notin dirty_entities =>
                   covered[outbox[i].entity] = Cardinality(Of(outbox[i].entity))
    <2>1. RowSound(outbox[i]) /\ outbox[i].entity \in Entities
        BY DEF OutboxInv, RowsSound, RowSound, OutRow
    <2>2. outbox[i].entity \notin dirty_entities =>
              covered[outbox[i].entity] = Cardinality(Of(outbox[i].entity))
        BY <2>1 DEF OutboxInv, MarksSound
    <2> QED
        BY <2>1, <2>2 DEF RowSound
<1> QED
    BY <1>5, <1>6, <1>7 DEF OutboxSound, OutboxInv, ClaimsSound

\* Through lost answers, retries, deaths and requeues no row is acknowledged but by
\* the owner of its claim, no claim is out of its owner's reach, and no entity is
\* clean whose rows were not all recalculated (insert, claim_queued, acknowledge,
\* requeue_claim, mark_recalculated).
THEOREM QueueSound == OutboxSpec => []OutboxSound
<1>1. ASSUME OutboxInv, [OutboxNext]_outboxVars PROVE OutboxInv'
    <2>1. CASE \E t \in Tokens :
                  \/ \E e \in Entities : prepare_insert(t, e)
                  \/ insert_refused(t) \/ ClientDies(t)
        BY <1>1, <2>1, TicketSteps
    <2>2. CASE \E t \in Tokens : insert(t) \/ claim_queued(t) \/ \E limit \in Limits : prepare_claim(t, limit)
        BY <1>1, <2>2, InsertStep, ClaimStep, PrepareClaimStep
    <2>3. CASE \E t \in Tokens :
                  (\E i \in client[t].rows : acknowledge(t, i)) \/ (\E i \in DOMAIN outbox : requeue_claim(i, t))
        BY <1>1, <2>3, RowSteps
    <2>4. CASE (\E e \in Entities : mark_recalculated(e)) \/ checkpoint_wal \/ \E t \in Tokens : close_store(t)
        BY <1>1, <2>4, MarkSteps DEF close_store
    <2>5. CASE UNCHANGED outboxVars
        <3>1. UNCHANGED <<outbox, marks, claims, client, covered>>
            BY <2>5 DEF outboxVars
        <3>2. ClientsSound'
            BY <1>1, <3>1 DEF OutboxInv, ClientsSound
        <3> QED
            BY <1>1, <3>1, <3>2, RowsStay DEF OutboxInv
    <2> QED
        BY <1>1, <2>1, <2>2, <2>3, <2>4, <2>5 DEF OutboxNext
<1> QED
    BY <1>1, OutboxStarts, OutboxReported, PTL DEF OutboxSpec

-----------------------------------------------------------------------------
(* The journal behind the in-process API.  The invariant has one part for  *)
(* the journal (an intent is recorded once, by an entitled caller, after   *)
(* its parent), one for the effects, which follow the journal, and one for *)
(* what a coordinator knows in the middle of a call: it was read from the  *)
(* journal under a lock since released, and is still true because the      *)
(* journal only grows.                                                     *)

Ops == {c.op : c \in Requested}
Entry == [op : Ops, kind : {c.kind : c \in Requested}, subject : Ops,
          parent : {c.parent : c \in Requested}, input : {c.input : c \in Requested},
          entitled : BOOLEAN]
Doing == [at : {"idle", "captured", "append", "journaled", "dispatching", "cancelling"},
          call : Requested \cup {NoRequest} \cup {[op |-> o] : o \in Ops},
          seen : Nat, captured : Nat]
ApiTypes ==
    /\ journal \in Seq(Entry)
    /\ session \in [Coordinators -> Doing]
    /\ grants \in [version : Nat, publisher : BOOLEAN]
    /\ effects \subseteq [op : Ops, kind : {c.kind : c \in Requested}, input : {c.input : c \in Requested}]

\* The journal: within its bound, each intent once, by someone entitled, on the
\* newest revision of a draft that is not frozen, after its parent's effect.
InOrder(before, entry) ==
    entry.kind \in {"edit", "seal"} =>
        Newest(before, entry.subject, entry.parent) /\ ~Frozen(before, entry.subject)
JournalLine ==
    /\ Len(journal) <= MAX_WORK
    /\ \A i \in DOMAIN journal :
          /\ journal[i].entitled
          /\ Intended(journal, journal[i].op) = {i}
          /\ InOrder(SubSeq(journal, 1, i - 1), journal[i])
          /\ journal[i].kind # "draft" => effect_row(journal[i].parent) # {}

\* What a call knows that has read the history, and that may append to it: that its
\* parent took effect, and as long as nothing changed, that it may publish and is
\* the newest revision's successor.
Reading(s) ==
    session[s].at \in {"captured", "append"} =>
        LET c == session[s].call
        IN  /\ c \in Requested
            /\ session[s].captured <= grants.version /\ session[s].seen <= Len(journal)
            /\ c.kind # "draft" => Intended(journal, c.parent) # {} /\ effect_row(c.parent) # {}
Appending(s) ==
    session[s].at = "append" =>
        /\ session[s].seen < MAX_WORK
        /\ session[s].captured = grants.version => grants.publisher
        /\ Editable(SubSeq(journal, 1, session[s].seen), session[s].call)

\* A call that dispatches is journaled as it is; what was halted is not dispatched.
Dispatching(s) ==
    /\ session[s].at \in {"journaled", "dispatching"} =>
          /\ session[s].call \in Requested
          /\ \E i \in Intended(journal, session[s].call.op) : Matches(journal[i], session[s].call)
    /\ session[s].at = "dispatching" => session[s].call.op \notin halted

\* One effect per operation, as it was journaled; none of what was halted.
EffectsMatch ==
    /\ \A e, f \in effects : e.op = f.op => e = f
    /\ \A e \in effects : \E i \in Intended(journal, e.op) :
          journal[i].kind = e.kind /\ journal[i].input = e.input
    /\ \A op \in halted : op \in cancels /\ effect_row(op) = {}

ApiInv ==
    /\ ApiTypes /\ JournalLine /\ EffectsMatch
    /\ \A s \in Coordinators : Reading(s) /\ Appending(s) /\ Dispatching(s)

\* A part of a sequence that is appended to.
LEMMA PrefixStays ==
    ASSUME NEW S, NEW q \in Seq(S), NEW x \in S, NEW n \in 0..Len(q)
    PROVE  /\ SubSeq(Append(q, x), 1, n) = SubSeq(q, 1, n)
           /\ SubSeq(q, 1, n) \in Seq(S) /\ Len(SubSeq(q, 1, n)) = n
           /\ \A k \in 1..n : SubSeq(q, 1, n)[k] = q[k]
           /\ SubSeq(q, 1, Len(q)) = q
<1> DEFINE r == Append(q, x)
           a == SubSeq(q, 1, n)
           b == SubSeq(r, 1, n)
<1>1. /\ r \in Seq(S) /\ Len(r) = Len(q) + 1 /\ Len(q) \in Nat
      /\ \A k \in 1..Len(q) : r[k] = q[k]
    BY AppendProperties
<1>2. /\ a \in Seq(S) /\ Len(a) = n
      /\ \A k \in 1..n : a[k] = q[k]
    <2>1. \A k \in 1..n : q[k] \in S
        BY <1>1
    <2> QED
        BY <1>1, <2>1, SubSeqProperties
<1> HIDE DEF r
<1>3. /\ b \in Seq(S) /\ Len(b) = n
      /\ \A k \in 1..n : b[k] = r[k]
    <2>1. \A k \in 1..n : r[k] \in S
        BY <1>1
    <2> QED
        BY <1>1, <2>1, SubSeqProperties
<1>4. SubSeq(q, 1, Len(q)) = q
    <2> DEFINE d == SubSeq(q, 1, Len(q))
    <2>1. /\ d \in Seq(S) /\ Len(d) = Len(q)
          /\ \A k \in 1..Len(q) : d[k] = q[k]
        <3>1. \A k \in 1..Len(q) : q[k] \in S
            BY <1>1
        <3> QED
            BY <1>1, <3>1, SubSeqProperties
    <2> HIDE DEF d
    <2>2. d = q
        BY <1>1, <2>1, SeqEqual
    <2> QED
        BY <2>2 DEF d
<1> HIDE DEF a, b
<1>5. a = b
    BY <1>1, <1>2, <1>3, SeqEqual
<1> QED
    BY <1>2, <1>4, <1>5 DEF a, b, r

\* What an entry more leaves of the intents before it.
LEMMA IntentStays ==
    ASSUME ApiTypes, NEW x \in Entry, journal' = Append(journal, x), Intended(journal, x.op) = {}
    PROVE  /\ journal' \in Seq(Entry) /\ Len(journal') = Len(journal) + 1 /\ Len(journal) \in Nat
           /\ DOMAIN journal = 1..Len(journal) /\ DOMAIN journal' = 1..(Len(journal) + 1)
           /\ \A i \in DOMAIN journal : journal'[i] = journal[i]
           /\ journal'[Len(journal) + 1] = x
           /\ \A op : op # x.op => Intended(journal', op) = Intended(journal, op)
           /\ Intended(journal', x.op) = {Len(journal) + 1}
           /\ \A op : Intended(journal, op) # {} => intent(op)' = intent(op) /\ op # x.op
           /\ \A c : c.kind = "draft" \/ Intended(journal, c.parent) # {} => subject_of(c)' = subject_of(c)
<1>1. /\ journal \in Seq(Entry) /\ journal' \in Seq(Entry) /\ Len(journal') = Len(journal) + 1
      /\ Len(journal) \in Nat
      /\ DOMAIN journal = 1..Len(journal) /\ DOMAIN journal' = 1..(Len(journal) + 1)
      /\ \A i \in DOMAIN journal : journal'[i] = journal[i]
      /\ journal'[Len(journal) + 1] = x
    BY AppendProperties DEF ApiTypes
<1>2. ASSUME NEW op, op # x.op PROVE Intended(journal', op) = Intended(journal, op)
    BY <1>1, <1>2 DEF Intended
<1>3. Intended(journal', x.op) = {Len(journal) + 1}
    BY <1>1 DEF Intended
<1>4. ASSUME NEW op, Intended(journal, op) # {} PROVE intent(op)' = intent(op) /\ op # x.op
    <2>1. op # x.op
        BY <1>4
    <2>2. Intended(journal', op) = Intended(journal, op)
        BY <1>2, <2>1
    <2>3. PICK k : k = CHOOSE i \in Intended(journal, op) : TRUE
        OBVIOUS
    <2>4. k \in DOMAIN journal
        BY <1>4, <2>3 DEF Intended
    <2>5. intent(op) = journal[k] /\ intent(op)' = journal'[k]
        BY <2>2, <2>3 DEF intent
    <2> QED
        BY <1>1, <2>1, <2>4, <2>5
<1>5. ASSUME NEW c, c.kind = "draft" \/ Intended(journal, c.parent) # {} PROVE subject_of(c)' = subject_of(c)
    BY <1>4, <1>5 DEF subject_of
<1> QED
    BY <1>1, <1>2, <1>3, <1>4, <1>5

\* An edit or a seal that is in order stays so.
LEMMA EditableStays ==
    ASSUME ApiTypes, NEW c, NEW n \in 0..Len(journal),
           c.kind = "draft" \/ Intended(journal, c.parent) # {},
           Editable(SubSeq(journal, 1, n), c),
           NEW x \in Entry, journal' = Append(journal, x), Intended(journal, x.op) = {}
    PROVE  Editable(SubSeq(journal, 1, n), c)'
<1>1. PICK q : q = SubSeq(journal, 1, n)
    OBVIOUS
<1>2. SubSeq(journal, 1, n)' = q
    BY <1>1, PrefixStays DEF ApiTypes
<1>3. PICK t : t = subject_of(c)
    OBVIOUS
<1>4. subject_of(c)' = t
    BY <1>3, IntentStays
<1>5. c.kind \in {"edit", "seal"} => Newest(q, t, c.parent) /\ ~Frozen(q, t)
    BY <1>1, <1>3 DEF Editable
<1> QED
    BY <1>2, <1>4, <1>5 DEF Editable, Newest, Frozen, Revisions

\* An intent is journaled.
LEMMA AppendStep ==
    ASSUME ApiInv, NEW s \in Coordinators, append(s)
    PROVE  ApiInv'
<1>1. PICK c, x : /\ c = session[s].call
                  /\ x = [op |-> c.op, kind |-> c.kind, subject |-> subject_of(c),
                          parent |-> c.parent, input |-> c.input, entitled |-> grants.publisher]
    OBVIOUS
<1>2. /\ session[s].at = "append" /\ grants.version = session[s].captured
      /\ Len(journal) = session[s].seen /\ Intended(journal, c.op) = {}
      /\ journal' = Append(journal, x)
      /\ \/ session' = [session EXCEPT ![s].at = "journaled"]
         \/ session' = [session EXCEPT ![s] = Quiet]
      /\ UNCHANGED <<effects, cancels, grants, halted>>
    BY <1>1 DEF append, Guarded
<1>3. ApiTypes /\ JournalLine /\ EffectsMatch /\ Reading(s) /\ Appending(s)
    BY DEF ApiInv
<1>4. /\ c \in Requested /\ session[s].seen < MAX_WORK /\ grants.publisher
      /\ c.kind # "draft" => Intended(journal, c.parent) # {} /\ effect_row(c.parent) # {}
      /\ Editable(journal, c)
    <2>1. SubSeq(journal, 1, Len(journal)) = journal
        <3>1. journal \in Seq(Entry)
            BY <1>3 DEF ApiTypes
        <3>2. \A i \in 1..Len(journal) : journal[i] \in Entry
            BY <3>1
        <3>3. PICK d : d = SubSeq(journal, 1, Len(journal))
            OBVIOUS
        <3>4. /\ d \in Seq(Entry) /\ Len(d) = Len(journal)
              /\ \A k \in 1..Len(journal) : d[k] = journal[k]
            BY <3>1, <3>2, <3>3, SubSeqProperties
        <3> QED
            BY <3>1, <3>3, <3>4, SeqEqual
    <2> QED
        BY <1>1, <1>2, <1>3, <2>1 DEF Reading, Appending
<1>5. subject_of(c) \in Ops
    <2>1. CASE c.kind = "draft"
        BY <1>4, <2>1 DEF subject_of, Ops
    <2>2. CASE c.kind # "draft"
        <3>1. PICK k \in Intended(journal, c.parent) : intent(c.parent) = journal[k]
            BY <1>4, <2>2 DEF intent
        <3>2. journal[k] \in Entry
            BY <1>3, <3>1 DEF ApiTypes, Intended
        <3> QED
            BY <2>2, <3>1, <3>2 DEF subject_of, Entry
    <2> QED
        BY <2>1, <2>2
<1>6. x \in Entry /\ x.op = c.op /\ x.kind = c.kind /\ x.subject = subject_of(c) /\ x.parent = c.parent
      /\ x.input = c.input /\ x.entitled = grants.publisher
    <2>1. grants.publisher \in BOOLEAN /\ c.op \in Ops
        BY <1>3, <1>4 DEF ApiTypes, Ops
    <2> QED
        BY <1>1, <1>4, <1>5, <2>1 DEF Entry
<1>7. /\ journal' \in Seq(Entry) /\ Len(journal') = Len(journal) + 1 /\ Len(journal) \in Nat
      /\ DOMAIN journal = 1..Len(journal) /\ DOMAIN journal' = 1..(Len(journal) + 1)
      /\ \A i \in DOMAIN journal : journal'[i] = journal[i]
      /\ journal'[Len(journal) + 1] = x
      /\ \A op : op # x.op => Intended(journal', op) = Intended(journal, op)
      /\ Intended(journal', x.op) = {Len(journal) + 1}
      /\ \A op : Intended(journal, op) # {} => intent(op)' = intent(op) /\ op # x.op
    BY <1>2, <1>3, <1>6, IntentStays
<1>8. /\ session' \in [Coordinators -> Doing]
      /\ \A t \in Coordinators \ {s} : session'[t] = session[t]
      /\ \/ session'[s].at = "journaled" /\ session'[s].call = c
         \/ session'[s].at = "idle"
    <2>1. session[s] \in Doing /\ session \in [Coordinators -> Doing] /\ Quiet \in Doing
        BY <1>3 DEF ApiTypes, Doing, Quiet
    <2>2. [session[s] EXCEPT !.at = "journaled"] \in Doing
        BY <2>1 DEF Doing
    <2>3. CASE session' = [session EXCEPT ![s].at = "journaled"]
        <3>1. session' = [session EXCEPT ![s] = [session[s] EXCEPT !.at = "journaled"]]
            BY <2>1, <2>3
        <3>2. /\ [session[s] EXCEPT !.at = "journaled"].at = "journaled"
              /\ [session[s] EXCEPT !.at = "journaled"].call = c
            BY <1>1, <2>1 DEF Doing
        <3> QED
            BY <2>1, <2>2, <3>1, <3>2
    <2>4. CASE session' = [session EXCEPT ![s] = Quiet]
        BY <2>1, <2>4 DEF Quiet
    <2> QED
        BY <1>2, <2>3, <2>4
<1>9. ApiTypes'
    BY <1>2, <1>3, <1>7, <1>8 DEF ApiTypes
<1>10. \A op : effect_row(op)' = effect_row(op)
    BY <1>2 DEF effect_row
<1>11. JournalLine'
    <2>1. Len(journal') <= MAX_WORK
        <3>1. MAX_WORK \in Nat
            BY ApiAssumption
        <3> QED
            BY <1>2, <1>4, <1>7, <3>1
    <2>2. ASSUME NEW i \in DOMAIN journal'
          PROVE  /\ journal'[i].entitled
                 /\ Intended(journal', journal'[i].op) = {i}
                 /\ InOrder(SubSeq(journal', 1, i - 1), journal'[i])
                 /\ journal'[i].kind # "draft" => effect_row(journal'[i].parent) # {}
        <3>1. i - 1 \in 0..Len(journal) /\ SubSeq(journal', 1, i - 1) = SubSeq(journal, 1, i - 1)
            <4>1. i - 1 \in 0..Len(journal)
                BY <1>7
            <4> QED
                BY <1>2, <1>3, <1>6, <4>1, PrefixStays DEF ApiTypes
        <3>2. CASE i \in DOMAIN journal
            <4>1. /\ journal[i].entitled
                  /\ Intended(journal, journal[i].op) = {i}
                  /\ InOrder(SubSeq(journal, 1, i - 1), journal[i])
                  /\ journal[i].kind # "draft" => effect_row(journal[i].parent) # {}
                BY <1>3, <3>2 DEF JournalLine
            <4>2. journal[i].op # x.op
                BY <1>1, <1>2, <1>6, <4>1
            <4> QED
                BY <1>7, <3>1, <3>2, <4>1, <4>2
        <3>3. CASE i = Len(journal) + 1
            <4>1. journal'[i] = x /\ Intended(journal', x.op) = {i}
                BY <1>7, <3>3
            <4>2. SubSeq(journal, 1, i - 1) = journal
                <5>1. i - 1 = Len(journal)
                    BY <1>7, <3>3
                <5> QED
                    BY <1>3, <1>6, <1>7, <5>1, PrefixStays DEF ApiTypes
            <4>3. InOrder(journal, x)
                BY <1>4, <1>6 DEF Editable, InOrder
            <4>4. x.kind # "draft" => effect_row(x.parent) # {}
                BY <1>4, <1>6
            <4> QED
                BY <1>4, <1>6, <3>1, <4>1, <4>2, <4>3, <4>4
        <3> QED
            BY <1>7, <3>2, <3>3
    <2> QED
        BY <1>2, <2>1, <2>2 DEF JournalLine, effect_row
<1>12. EffectsMatch'
    <2>1. ASSUME NEW e \in effects
          PROVE  \E i \in Intended(journal', e.op) : journal'[i].kind = e.kind /\ journal'[i].input = e.input
        <3>1. PICK i \in Intended(journal, e.op) : journal[i].kind = e.kind /\ journal[i].input = e.input
            BY <1>3 DEF EffectsMatch
        <3>2. e.op # x.op /\ i \in DOMAIN journal
            BY <1>7, <3>1 DEF Intended
        <3> QED
            BY <1>7, <3>1, <3>2
    <2> QED
        BY <1>2, <1>3, <1>10, <2>1 DEF EffectsMatch
<1>13. ASSUME NEW t \in Coordinators PROVE Reading(t)' /\ Appending(t)' /\ Dispatching(t)'
    <2>1. CASE t = s
        <3>1. session'[s].at = "journaled" => \E i \in Intended(journal', c.op) : Matches(journal'[i], c)
            BY <1>6, <1>7 DEF Matches
        <3> QED
            BY <1>4, <1>8, <2>1, <3>1 DEF Reading, Appending, Dispatching
    <2>2. CASE t # s
        <3>0. Reading(t) /\ Appending(t) /\ Dispatching(t) /\ session'[t] = session[t] /\ session[t] \in Doing
            BY <1>3, <1>8, <2>2 DEF ApiInv, ApiTypes
        <3>a. PICK d, n : d = session[t].call /\ n = session[t].seen
            OBVIOUS
        <3>1. Reading(t)'
            <4> SUFFICES ASSUME session[t].at \in {"captured", "append"}
                         PROVE  /\ d \in Requested /\ session[t].captured <= grants.version
                                /\ n <= Len(journal')
                                /\ d.kind # "draft" => Intended(journal', d.parent) # {} /\ effect_row(d.parent)' # {}
                BY <1>2, <3>0, <3>a DEF Reading
            <4>1. /\ d \in Requested /\ session[t].captured <= grants.version /\ n <= Len(journal)
                  /\ d.kind # "draft" => Intended(journal, d.parent) # {} /\ effect_row(d.parent) # {}
                BY <3>0, <3>a DEF Reading
            <4>2. n \in Nat
                BY <3>0, <3>a DEF Doing
            <4> QED
                BY <1>7, <1>10, <4>1, <4>2
        <3>2. Appending(t)'
            <4> SUFFICES ASSUME session[t].at = "append"
                         PROVE  /\ n < MAX_WORK
                                /\ session[t].captured = grants.version => grants.publisher
                                /\ Editable(SubSeq(journal, 1, n), d)'
                BY <1>2, <3>0, <3>a DEF Appending
            <4>1. /\ n < MAX_WORK /\ n \in 0..Len(journal)
                  /\ session[t].captured = grants.version => grants.publisher
                  /\ Editable(SubSeq(journal, 1, n), d)
                  /\ d.kind # "draft" => Intended(journal, d.parent) # {}
                BY <1>7, <3>0, <3>a DEF Reading, Appending, Doing
            <4> QED
                BY <1>1, <1>2, <1>3, <1>6, <4>1, EditableStays, ZenonT(30)
        <3>3. Dispatching(t)'
            <4>1. ASSUME session[t].at \in {"journaled", "dispatching"}
                  PROVE  d \in Requested /\ \E i \in Intended(journal', d.op) : Matches(journal'[i], d)
                <5>1. d \in Requested
                    BY <3>0, <3>a, <4>1 DEF Dispatching
                <5>2. PICK i \in Intended(journal, d.op) : Matches(journal[i], d)
                    BY <3>0, <3>a, <4>1 DEF Dispatching
                <5>3. d.op # x.op /\ i \in DOMAIN journal
                    BY <1>7, <5>2 DEF Intended
                <5> QED
                    BY <1>7, <5>1, <5>2, <5>3
            <4> QED
                BY <1>2, <3>0, <3>a, <4>1 DEF Dispatching
        <3> QED
            BY <3>1, <3>2, <3>3
    <2> QED
        BY <2>1, <2>2
<1> QED
    BY <1>9, <1>11, <1>12, <1>13 DEF ApiInv

\* What a coordinator may be doing, as far as the others are concerned.
InOrderTo(x) ==
    /\ x.at \in {"captured", "append"} =>
          /\ x.call \in Requested /\ x.captured <= grants.version /\ x.seen <= Len(journal)
          /\ x.call.kind # "draft" => Intended(journal, x.call.parent) # {} /\ effect_row(x.call.parent) # {}
    /\ x.at = "append" =>
          /\ x.seen < MAX_WORK
          /\ x.captured = grants.version => grants.publisher
          /\ Editable(SubSeq(journal, 1, x.seen), x.call)
    /\ x.at \in {"journaled", "dispatching"} =>
          /\ x.call \in Requested
          /\ \E i \in Intended(journal, x.call.op) : Matches(journal[i], x.call)
    /\ x.at = "dispatching" => x.call.op \notin halted

\* The three parts of the invariant about one coordinator.
LEMMA OfOne ==
    ASSUME NEW s \in Coordinators
    PROVE  Reading(s) /\ Appending(s) /\ Dispatching(s) <=> InOrderTo(session[s])
BY DEF Reading, Appending, Dispatching, InOrderTo

\* A step that changes what one coordinator does.
LEMMA SessionStep ==
    ASSUME ApiInv, NEW s \in Coordinators, NEW x \in Doing, session' = [session EXCEPT ![s] = x],
           InOrderTo(x), UNCHANGED <<journal, effects, cancels, grants, halted>>
    PROVE  ApiInv'
<1>1. ApiTypes /\ JournalLine /\ EffectsMatch
    BY DEF ApiInv
<1>2. session' \in [Coordinators -> Doing] /\ session'[s] = x /\ \A t \in Coordinators \ {s} : session'[t] = session[t]
    BY <1>1 DEF ApiTypes
<1>3. ApiTypes'
    BY <1>1, <1>2 DEF ApiTypes
<1>5. JournalLine'
    BY <1>1 DEF JournalLine, effect_row
<1>6. EffectsMatch'
    BY <1>1 DEF EffectsMatch, effect_row
<1>4. ASSUME NEW t \in Coordinators PROVE Reading(t)' /\ Appending(t)' /\ Dispatching(t)'
    <2>1. InOrderTo(session'[t])
        <3>1. CASE t = s
            BY <1>2, <3>1
        <3>2. CASE t # s
            <4>1. session'[t] = session[t]
                BY <1>2, <3>2
            <4> QED
                BY <4>1, OfOne DEF ApiInv
        <3> QED
            BY <3>1, <3>2
    <2> QED
        BY <2>1 DEF InOrderTo, Reading, Appending, Dispatching, Editable, subject_of, intent, effect_row
<1> QED
    BY <1>3, <1>4, <1>5, <1>6 DEF ApiInv

\* What a coordinator is doing has its type.
LEMMA DoingTypes ==
    ASSUME ApiTypes, NEW s \in Coordinators
    PROVE  /\ session[s] \in Doing /\ Quiet \in Doing /\ Quiet.at = "idle"
           /\ \A at \in {"idle", "captured", "append", "journaled", "dispatching", "cancelling"} :
                 LET x == [session[s] EXCEPT !.at = at] IN
                 /\ x \in Doing /\ x.at = at /\ x.call = session[s].call
                 /\ x.seen = session[s].seen /\ x.captured = session[s].captured
                 /\ [session EXCEPT ![s].at = at] = [session EXCEPT ![s] = x]
BY DEF ApiTypes, Doing, Quiet

\* A call enters, reads the history and looks for its intent; an intent is found
\* or is found committed; a dispatch begins; a cancellation is read; a call ends.
LEMMA CallSteps ==
    ASSUME ApiInv, NEW s \in Coordinators,
           \/ \E c \in Requested :
                 \/ draft(s, c) \/ edit(s, c) \/ seal(s, c) \/ prepare_accept(s, c)
                 \/ record_finding(s, c) \/ submit_accept(s, c) \/ cancel(s, c.op)
           \/ authorized(s) \/ append_replayed(s) \/ dispatchable(s) \/ Returns(s)
    PROVE  ApiInv'
<1>1. ApiTypes /\ JournalLine /\ EffectsMatch /\ InOrderTo(session[s])
    BY OfOne DEF ApiInv
<1>2. /\ session[s] \in Doing /\ Quiet \in Doing /\ Quiet.at = "idle"
      /\ session \in [Coordinators -> Doing]
      /\ \A at \in {"idle", "captured", "append", "journaled", "dispatching", "cancelling"} :
            LET x == [session[s] EXCEPT !.at = at] IN
            /\ x \in Doing /\ x.at = at /\ x.call = session[s].call
            /\ x.seen = session[s].seen /\ x.captured = session[s].captured
            /\ [session EXCEPT ![s].at = at] = [session EXCEPT ![s] = x]
    BY <1>1, DoingTypes DEF ApiTypes
<1>3. grants.version \in Nat /\ Len(journal) \in Nat /\ journal \in Seq(Entry)
    BY <1>1 DEF ApiTypes
<1>4. ASSUME NEW c \in Requested, remember(s, c),
             c.kind # "draft" => Intended(journal, c.parent) # {} /\ effect_row(c.parent) # {}
      PROVE  ApiInv'
    <2>1. PICK x : x = [at |-> "captured", call |-> c, seen |-> Len(journal), captured |-> grants.version]
        OBVIOUS
    <2>2. x \in Doing /\ x.at = "captured" /\ x.call = c /\ x.seen = Len(journal) /\ x.captured = grants.version
        BY <1>3, <2>1 DEF Doing
    <2>3. InOrderTo(x)
        BY <1>3, <1>4, <2>2 DEF InOrderTo
    <2>4. session' = [session EXCEPT ![s] = x] /\ UNCHANGED <<journal, effects, cancels, grants, halted>>
        BY <1>4, <2>1 DEF remember
    <2> QED
        BY <2>2, <2>3, <2>4, SessionStep
<1>5. ASSUME NEW op, read_revision(op) PROVE Intended(journal, op) # {} /\ effect_row(op) # {}
    BY <1>5 DEF read_revision
<1>6. ASSUME NEW op, seal_effect(op) # {} PROVE Intended(journal, op) # {} /\ effect_row(op) # {}
    BY <1>6 DEF seal_effect
<1>7. ASSUME NEW c \in Requested,
             draft(s, c) \/ edit(s, c) \/ seal(s, c) \/ prepare_accept(s, c) \/ record_finding(s, c)
      PROVE  ApiInv'
    BY <1>4, <1>5, <1>6, <1>7 DEF draft, edit, seal, prepare_accept, record_finding
<1>8. ASSUME NEW c \in Requested, submit_accept(s, c) PROVE ApiInv'
    <2>1. PICK x : x = [Quiet EXCEPT !.at = "journaled", !.call = c]
        OBVIOUS
    <2>2. x \in Doing /\ x.at = "journaled" /\ x.call = c
        BY <2>1 DEF Doing, Quiet
    <2>3. \E i \in Intended(journal, c.op) : Matches(journal[i], c)
        BY <1>8 DEF submit_accept, intent
    <2>4. InOrderTo(x)
        BY <2>2, <2>3 DEF InOrderTo
    <2>5. session' = [session EXCEPT ![s] = x] /\ UNCHANGED <<journal, effects, cancels, grants, halted>>
        BY <1>8, <2>1 DEF submit_accept
    <2> QED
        BY <2>2, <2>4, <2>5, SessionStep
<1>9. ASSUME NEW c \in Requested, cancel(s, c.op) PROVE ApiInv'
    <2>1. PICK x : x = [Quiet EXCEPT !.at = "cancelling", !.captured = grants.version, !.call = [op |-> c.op]]
        OBVIOUS
    <2>2. x \in Doing /\ x.at = "cancelling"
        BY <1>3, <2>1 DEF Doing, Quiet, Ops
    <2>3. session' = [session EXCEPT ![s] = x] /\ UNCHANGED <<journal, effects, cancels, grants, halted>>
        BY <1>9, <2>1 DEF cancel
    <2>4. InOrderTo(x)
        BY <2>2 DEF InOrderTo
    <2> QED
        BY <2>2, <2>3, <2>4, SessionStep
<1>10. CASE authorized(s)
    <2>1. PICK c, n : c = session[s].call /\ n = session[s].seen
        OBVIOUS
    <2>2. /\ session[s].at = "captured" /\ grants.publisher
          /\ UNCHANGED <<journal, effects, cancels, grants, halted>>
          /\ c \in Requested /\ session[s].captured <= grants.version /\ n <= Len(journal)
          /\ c.kind # "draft" => Intended(journal, c.parent) # {} /\ effect_row(c.parent) # {}
        BY <1>1, <1>10, <2>1 DEF authorized, InOrderTo
    <2>3. CASE {i \in Intended(journal, c.op) : i <= n} # {}
        <3>1. /\ session' = [session EXCEPT ![s].at = "journaled"]
              /\ \E i \in Intended(journal, c.op) : Matches(journal[i], c)
            BY <1>10, <2>1, <2>3 DEF authorized
        <3>2. PICK x : x = [session[s] EXCEPT !.at = "journaled"]
            OBVIOUS
        <3>3. x \in Doing /\ x.at = "journaled" /\ x.call = c /\ session' = [session EXCEPT ![s] = x]
            BY <1>2, <2>1, <3>1, <3>2
        <3>4. InOrderTo(x)
            BY <2>2, <3>1, <3>3 DEF InOrderTo
        <3> QED
            BY <2>2, <3>3, <3>4, SessionStep
    <2>4. CASE {i \in Intended(journal, c.op) : i <= n} = {}
        <3>1. /\ session' = [session EXCEPT ![s].at = "append"]
              /\ n < MAX_WORK /\ Editable(SubSeq(journal, 1, n), c)
            BY <1>10, <2>1, <2>4 DEF authorized
        <3>2. PICK x : x = [session[s] EXCEPT !.at = "append"]
            OBVIOUS
        <3>3. /\ x \in Doing /\ x.at = "append" /\ x.call = c /\ x.seen = n /\ x.captured = session[s].captured
              /\ session' = [session EXCEPT ![s] = x]
            BY <1>2, <2>1, <3>1, <3>2
        <3>4. InOrderTo(x)
            BY <2>2, <3>1, <3>3 DEF InOrderTo
        <3> QED
            BY <2>2, <3>3, <3>4, SessionStep
    <2> QED
        BY <2>3, <2>4
<1>11. CASE append_replayed(s)
    <2>1. PICK x : x = [session[s] EXCEPT !.at = "journaled"]
        OBVIOUS
    <2>2. /\ session' = [session EXCEPT ![s].at = "journaled"]
          /\ UNCHANGED <<journal, effects, cancels, grants, halted>>
          /\ session[s].at = "append"
          /\ \E i \in Intended(journal, session[s].call.op) : Matches(journal[i], session[s].call)
        BY <1>11 DEF append_replayed
    <2>3. x \in Doing /\ x.at = "journaled" /\ x.call = session[s].call /\ session' = [session EXCEPT ![s] = x]
        BY <1>2, <2>1, <2>2
    <2>4. InOrderTo(x)
        BY <1>1, <2>2, <2>3 DEF InOrderTo
    <2> QED
        BY <2>2, <2>3, <2>4, SessionStep
<1>12. CASE dispatchable(s)
    <2>1. PICK x : x = [session[s] EXCEPT !.at = "dispatching"]
        OBVIOUS
    <2>2. /\ session' = [session EXCEPT ![s].at = "dispatching"]
          /\ UNCHANGED <<journal, effects, cancels, grants, halted>>
          /\ session[s].at = "journaled" /\ session[s].call.op \notin cancels
        BY <1>12 DEF dispatchable
    <2>3. x \in Doing /\ x.at = "dispatching" /\ x.call = session[s].call /\ session' = [session EXCEPT ![s] = x]
        BY <1>2, <2>1, <2>2
    <2>4. InOrderTo(x)
        BY <1>1, <2>2, <2>3 DEF InOrderTo, EffectsMatch
    <2> QED
        BY <2>2, <2>3, <2>4, SessionStep
<1>13. CASE Returns(s)
    <2>1. InOrderTo(Quiet)
        BY <1>2 DEF InOrderTo
    <2> QED
        BY <1>2, <1>13, <2>1, SessionStep DEF Returns
<1> QED
    BY <1>7, <1>8, <1>9, <1>10, <1>11, <1>12, <1>13

\* The access history moves on: no call that captured an earlier version is guarded
\* any more.
LEMMA GrantsStep ==
    ASSUME ApiInv, GrantsChange
    PROVE  ApiInv'
<1>1. /\ UNCHANGED <<journal, effects, cancels, session, halted>>
      /\ grants' \in [version : Nat, publisher : BOOLEAN] /\ grants'.version = grants.version + 1
      /\ grants.version \in Nat
    <2>1. grants.version \in Nat /\ grants.publisher \in BOOLEAN
        BY DEF ApiInv, ApiTypes
    <2>2. PICK publisher \in {grants.publisher, FALSE} :
              grants' = [version |-> grants.version + 1, publisher |-> publisher]
        BY DEF GrantsChange
    <2>3. publisher \in BOOLEAN
        BY <2>1, <2>2
    <2>5. grants.version + 1 \in Nat
        BY <2>1
    <2>4. UNCHANGED <<journal, effects, cancels, session, halted>>
        BY DEF GrantsChange
    <2> QED
        BY <2>1, <2>2, <2>3, <2>4, <2>5
<1>2. ApiTypes /\ JournalLine /\ EffectsMatch
    BY DEF ApiInv
<1>3. ApiTypes'
    BY <1>1, <1>2 DEF ApiTypes
<1>4. JournalLine'
    BY <1>1, <1>2 DEF JournalLine, effect_row
<1>5. EffectsMatch'
    BY <1>1, <1>2 DEF EffectsMatch, effect_row
<1>6. ASSUME NEW t \in Coordinators PROVE Reading(t)' /\ Appending(t)' /\ Dispatching(t)'
    <2>1. session[t].captured \in Nat
        BY <1>2 DEF ApiTypes, Doing
    <2>2. Reading(t) /\ Appending(t) /\ Dispatching(t)
        BY DEF ApiInv
    <2>3. Reading(t)'
        BY <1>1, <2>1, <2>2 DEF Reading, effect_row
    <2>4. Appending(t)'
        <3>1. session[t].at = "append" => session[t].captured # grants'.version
            BY <1>1, <2>1, <2>2 DEF Reading
        <3>2. \A q, c : Editable(q, c)' <=> Editable(q, c)
            BY <1>1 DEF Editable, subject_of, intent
        <3> QED
            BY <1>1, <2>2, <3>1 DEF Appending, Editable, subject_of, intent
    <2>5. Dispatching(t)'
        BY <1>1, <2>2 DEF Dispatching
    <2> QED
        BY <2>3, <2>4, <2>5
<1> QED
    BY <1>3, <1>4, <1>5, <1>6 DEF ApiInv

\* An owner commits the effect of a journaled intent, once; or an operation is
\* cancelled.
LEMMA EffectSteps ==
    ASSUME ApiInv, NEW s \in Coordinators,
           \/ write_draft(s) \/ seal_commit(s) \/ accept_commit(s) \/ emit_finding_effect(s)
           \/ cancel_append(s)
    PROVE  ApiInv'
<1>1. ApiTypes /\ JournalLine /\ EffectsMatch /\ InOrderTo(session[s])
    BY OfOne DEF ApiInv
<1>2. session \in [Coordinators -> Doing] /\ session[s] \in Doing /\ Quiet \in Doing /\ Quiet.at = "idle"
    BY <1>1, DoingTypes DEF ApiTypes
<1>3. ASSUME UNCHANGED <<journal, grants>>, session' = [session EXCEPT ![s] = Quiet],
             effects \subseteq effects',
             \A t \in Coordinators : session'[t].at = "dispatching" => session'[t].call.op \notin halted'
      PROVE  \A t \in Coordinators : Reading(t)' /\ Appending(t)' /\ Dispatching(t)'
    <2> SUFFICES ASSUME NEW t \in Coordinators PROVE Reading(t)' /\ Appending(t)' /\ Dispatching(t)'
        OBVIOUS
    <2>1. CASE t = s
        BY <1>2, <1>3, <2>1 DEF Reading, Appending, Dispatching
    <2>2. CASE t # s
        <3>a. PICK y : y = session[t]
            OBVIOUS
        <3>1. session'[t] = y /\ InOrderTo(y)
            BY <1>2, <1>3, <2>2, <3>a, OfOne DEF ApiInv
        <3>2. Reading(t)'
            BY <1>3, <3>1 DEF Reading, InOrderTo, effect_row
        <3>3. Appending(t)'
            <4>1. InOrderTo(session'[t])
                BY <3>1
            <4> QED
                BY <1>3, <4>1 DEF Appending, InOrderTo, Editable, subject_of, intent
        <3>4. Dispatching(t)'
            BY <1>3, <3>1 DEF Dispatching, InOrderTo
        <3> QED
            BY <3>2, <3>3, <3>4
    <2> QED
        BY <2>1, <2>2
<1>4. ASSUME NEW kinds, Commits(s, kinds) PROVE ApiInv'
    <2>1. PICK c, e : c = session[s].call /\ e = [op |-> c.op, kind |-> c.kind, input |-> c.input]
        OBVIOUS
    <2>2. /\ session[s].at = "dispatching"
          /\ effects' = IF effect_row(c.op) # {} THEN effects ELSE effects \cup {e}
          /\ session' = [session EXCEPT ![s] = Quiet]
          /\ UNCHANGED <<journal, cancels, grants, halted>>
        BY <1>4, <2>1 DEF Commits
    <2>3. /\ c \in Requested /\ c.op \notin halted
          /\ \E i \in Intended(journal, c.op) : Matches(journal[i], c)
        BY <1>1, <2>1, <2>2 DEF InOrderTo
    <2>4. /\ e.op = c.op /\ e.kind = c.kind /\ e.input = c.input
          /\ e \in [op : Ops, kind : {d.kind : d \in Requested}, input : {d.input : d \in Requested}]
        BY <2>1, <2>3 DEF Ops
    <2>5. effects \subseteq effects' /\ effects' \subseteq effects \cup {e}
        BY <2>2
    <2>6. ApiTypes'
        BY <1>1, <1>2, <2>2, <2>4, <2>5 DEF ApiTypes
    <2>7. JournalLine'
        BY <1>1, <2>2, <2>5 DEF JournalLine, effect_row
    <2>8. EffectsMatch'
        <3>1. \A f, g \in effects' : f.op = g.op => f = g
            BY <1>1, <2>2, <2>4 DEF EffectsMatch, effect_row
        <3>2. ASSUME NEW f \in effects'
              PROVE  \E i \in Intended(journal, f.op) : journal[i].kind = f.kind /\ journal[i].input = f.input
            BY <1>1, <2>3, <2>4, <2>5 DEF EffectsMatch, Matches
        <3>3. ASSUME NEW op \in halted PROVE op \in cancels /\ effect_row(op)' = {}
            BY <1>1, <2>3, <2>4, <2>5 DEF EffectsMatch, effect_row
        <3> QED
            BY <2>2, <3>1, <3>2, <3>3 DEF EffectsMatch
    <2>9. \A t \in Coordinators : session'[t].at = "dispatching" => session'[t].call.op \notin halted'
        BY <1>2, <2>2 DEF ApiInv, Dispatching
    <2> QED
        BY <1>3, <2>2, <2>5, <2>6, <2>7, <2>8, <2>9 DEF ApiInv
<1>5. CASE cancel_append(s)
    <2>1. PICK op : op = session[s].call.op
        OBVIOUS
    <2>2. /\ session[s].at = "cancelling" /\ cancels' = cancels \cup {op}
          /\ session' = [session EXCEPT ![s] = Quiet]
          /\ UNCHANGED <<journal, effects, grants>>
          /\ \/ halted' = halted
             \/ /\ halted' = halted \cup {op} /\ effect_row(op) = {}
                /\ \A t \in Coordinators : session[t].at = "dispatching" => session[t].call.op # op
        BY <1>5, <2>1 DEF cancel_append
    <2>3. ApiTypes'
        BY <1>1, <1>2, <2>2 DEF ApiTypes
    <2>4. JournalLine'
        BY <1>1, <2>2 DEF JournalLine, effect_row
    <2>5. EffectsMatch'
        BY <1>1, <2>2 DEF EffectsMatch, effect_row
    <2>6. \A t \in Coordinators : session'[t].at = "dispatching" => session'[t].call.op \notin halted'
        BY <1>2, <2>2 DEF ApiInv, Dispatching
    <2> QED
        BY <1>3, <2>2, <2>3, <2>4, <2>5, <2>6 DEF ApiInv
<1> QED
    BY <1>4, <1>5 DEF write_draft, seal_commit, accept_commit, emit_finding_effect


\* The empty journal.
LEMMA ApiStarts ==
    ASSUME ApiInit
    PROVE  ApiInv
<1>1. /\ journal = <<>> /\ effects = {} /\ cancels = {} /\ halted = {}
      /\ session = [s \in Coordinators |-> Quiet]
      /\ grants = [version |-> 0, publisher |-> TRUE]
    BY DEF ApiInit
<1>2. Quiet \in Doing /\ Quiet.at = "idle"
    BY DEF Quiet, Doing
<1>3. journal \in Seq(Entry) /\ Len(journal) = 0 /\ DOMAIN journal = {}
    BY <1>1
<1>4. ApiTypes
    <2>1. grants \in [version : Nat, publisher : BOOLEAN]
        <3>1. TRUE \in BOOLEAN /\ 0 \in Nat
            OBVIOUS
        <3> QED
            BY <1>1, <3>1
    <2>2. session \in [Coordinators -> Doing]
        BY <1>1, <1>2
    <2> QED
        BY <1>1, <1>3, <2>1, <2>2 DEF ApiTypes
<1>5. JournalLine
    <2>1. MAX_WORK \in Nat
        BY ApiAssumption
    <2> QED
        BY <1>3, <2>1 DEF JournalLine
<1>6. EffectsMatch
    BY <1>1 DEF EffectsMatch
<1>7. ASSUME NEW s \in Coordinators PROVE Reading(s) /\ Appending(s) /\ Dispatching(s)
    <2>1. session[s].at = "idle"
        BY <1>1, <1>2
    <2> QED
        BY <2>1 DEF Reading, Appending, Dispatching
<1> QED
    BY <1>4, <1>5, <1>6, <1>7 DEF ApiInv

\* Nothing happens.
LEMMA ApiStutters ==
    ASSUME ApiInv, UNCHANGED apiVars
    PROVE  ApiInv'
<1>1. ApiTypes /\ JournalLine /\ EffectsMatch
    BY DEF ApiInv
<1>2. UNCHANGED <<journal, effects, cancels, session, grants, halted>>
    BY DEF apiVars
<1>3. ApiTypes' /\ JournalLine' /\ EffectsMatch'
    <2>1. ApiTypes'
        BY <1>1, <1>2 DEF ApiTypes
    <2>2. JournalLine'
        BY <1>1, <1>2 DEF JournalLine, effect_row
    <2>3. EffectsMatch'
        BY <1>1, <1>2 DEF EffectsMatch, effect_row
    <2> QED
        BY <2>1, <2>2, <2>3
<1>4. ASSUME NEW t \in Coordinators PROVE Reading(t)' /\ Appending(t)' /\ Dispatching(t)'
    <2>1. InOrderTo(session'[t])
        BY <1>2, OfOne DEF ApiInv
    <2> QED
        BY <1>2, <2>1 DEF InOrderTo, Reading, Appending, Dispatching, Editable, subject_of, intent, effect_row
<1> QED
    BY <1>3, <1>4 DEF ApiInv

\* Every step of the API keeps the invariant.
LEMMA ApiSteps ==
    ASSUME ApiInv, [ApiNext]_apiVars
    PROVE  ApiInv'
<1>1. CASE GrantsChange
    BY <1>1, GrantsStep
<1>2. CASE UNCHANGED apiVars
    BY <1>2, ApiStutters
<1>3. ASSUME NEW s \in Coordinators,
             \/ \E c \in Requested :
                   \/ draft(s, c) \/ edit(s, c) \/ seal(s, c) \/ prepare_accept(s, c)
                   \/ record_finding(s, c) \/ submit_accept(s, c) \/ cancel(s, c.op)
             \/ authorized(s) \/ append_replayed(s) \/ dispatchable(s) \/ Returns(s)
      PROVE  ApiInv'
    BY <1>3, CallSteps
<1>4. ASSUME NEW s \in Coordinators, append(s) PROVE ApiInv'
    BY <1>4, AppendStep
<1>5. ASSUME NEW s \in Coordinators,
             \/ write_draft(s) \/ seal_commit(s) \/ accept_commit(s) \/ emit_finding_effect(s)
             \/ cancel_append(s)
      PROVE  ApiInv'
    BY <1>5, EffectSteps
<1> QED
    BY <1>1, <1>2, <1>3, <1>4, <1>5 DEF ApiNext

\* The first seal of a draft is one.
LEMMA SealedOnce ==
    ASSUME ApiTypes, NEW subject, sealed(subject) # {}
    PROVE  Cardinality(sealed(subject)) = 1
<1>1. PICK K : K = {k \in DOMAIN journal :
          /\ journal[k].kind = "seal" /\ journal[k].subject = subject
          /\ \A m \in DOMAIN journal : journal[m].kind = "seal" /\ journal[m].subject = subject => k <= m}
    OBVIOUS
<1>2. sealed(subject) = {work_status(journal[i]) : i \in K}
    BY <1>1 DEF sealed
<1>3. PICK k \in K : TRUE
    BY <1>2
<1>4. ASSUME NEW m \in K PROVE m = k
    <2>1. m \in Nat /\ k \in Nat
        <3>1. DOMAIN journal = 1..Len(journal) /\ Len(journal) \in Nat
            BY DEF ApiTypes
        <3> QED
            BY <1>1, <1>3, <3>1
    <2>2. m <= k /\ k <= m
        BY <1>1, <1>3
    <2> QED
        BY <2>1, <2>2
<1>5. sealed(subject) = {work_status(journal[k])}
    BY <1>2, <1>3, <1>4
<1> QED
    BY <1>5, FS_Singleton

\* A page is the part of the list it begins at, no longer than it may be, and the next
\* one begins where it ends.
LEMMA PageTiles ==
    ASSUME NEW S, NEW q \in Seq(S), NEW offset \in 0..Len(q), NEW size \in Nat
    PROVE  LET p == page(q, offset, size)
           IN  /\ Len(p.items) <= size
               /\ \A n \in p.next : p.items \o SubSeq(q, n + 1, Len(q)) = SubSeq(q, offset + 1, Len(q))
               /\ p.next = {} => p.items = SubSeq(q, offset + 1, Len(q))
<1>1. Len(q) \in Nat /\ offset \in Nat /\ \A i \in 1..Len(q) : q[i] \in S
    OBVIOUS
<1>2. CASE offset + size < Len(q)
    <2>1. PICK items, k : k = offset + size /\ items = SubSeq(q, offset + 1, k)
        OBVIOUS
    <2>2. page(q, offset, size) = [items |-> items, next |-> {k}]
        BY <1>2, <2>1 DEF page
    <2>3. Len(items) = size
        <3>1. offset + 1 \in Int /\ k \in Int /\ \A i \in (offset + 1)..k : q[i] \in S
            BY <1>1, <1>2, <2>1
        <3>2. Len(items) = IF offset + 1 <= k THEN k - (offset + 1) + 1 ELSE 0
            BY <2>1, <3>1, SubSeqProperties
        <3> QED
            BY <1>1, <2>1, <3>2
    <2>4. items \o SubSeq(q, k + 1, Len(q)) = SubSeq(q, offset + 1, Len(q))
        <3>1. PICK m, n : m = offset + 1 /\ n = Len(q)
            OBVIOUS
        <3>2. m \in 1..(Len(q) + 1) /\ k \in (m - 1)..Len(q) /\ n \in k..Len(q)
            BY <1>1, <1>2, <2>1, <3>1
        <3>3. SubSeq(q, m, k) \o SubSeq(q, k + 1, n) = SubSeq(q, m, n)
            BY <3>2, ConcatAdjacentSubSeq
        <3> QED
            BY <2>1, <3>1, <3>3
    <2>5. PICK p : p = page(q, offset, size)
        OBVIOUS
    <2>6. p.items = items /\ p.next = {k} /\ size <= size
        BY <2>2, <2>5
    <2>7. /\ Len(p.items) <= size
          /\ \A n \in p.next : p.items \o SubSeq(q, n + 1, Len(q)) = SubSeq(q, offset + 1, Len(q))
          /\ p.next # {}
        BY <2>3, <2>4, <2>6
    <2> QED
        BY <2>5, <2>7
<1>3. CASE ~(offset + size < Len(q))
    <2>1. PICK items : items = SubSeq(q, offset + 1, Len(q))
        OBVIOUS
    <2>2. page(q, offset, size) = [items |-> items, next |-> {}]
        BY <1>3, <2>1 DEF page
    <2>3. Len(items) <= size
        <3>1. offset + 1 \in Int /\ Len(q) \in Int /\ \A i \in (offset + 1)..Len(q) : q[i] \in S
            BY <1>1
        <3>2. Len(items) = IF offset + 1 <= Len(q) THEN Len(q) - (offset + 1) + 1 ELSE 0
            BY <2>1, <3>1, SubSeqProperties
        <3> QED
            BY <1>1, <1>3, <3>2
    <2> QED
        BY <2>1, <2>2, <2>3
<1> QED
    BY <1>2, <1>3

\* What the invariant says of the journal, of its effects and of its pages.
LEMMA ApiSound ==
    ASSUME ApiInv
    PROVE  ApiJournalSound
<1>1. ApiTypes /\ JournalLine /\ EffectsMatch
    BY DEF ApiInv
<1>2. journal \in Seq(Entry) /\ DOMAIN journal = 1..Len(journal) /\ Len(journal) \in Nat
    BY <1>1 DEF ApiTypes
<1>3. ASSUME NEW i \in DOMAIN journal
      PROVE  /\ journal[i].entitled
             /\ Intended(journal, journal[i].op) = {i}
             /\ journal[i].kind \in {"edit", "seal"} =>
                   /\ Newest(SubSeq(journal, 1, i - 1), journal[i].subject, journal[i].parent)
                   /\ ~Frozen(SubSeq(journal, 1, i - 1), journal[i].subject)
             /\ sealed(journal[i].subject) # {} => Cardinality(sealed(journal[i].subject)) = 1
    BY <1>1, SealedOnce DEF JournalLine, InOrder
<1>4. ASSUME NEW e \in effects
      PROVE  /\ Cardinality(effect_row(e.op)) = 1
             /\ \E i \in DOMAIN journal :
                   /\ journal[i].op = e.op /\ journal[i].kind = e.kind /\ journal[i].input = e.input
                   /\ e.kind # "draft" => effect_row(journal[i].parent) # {}
    <2>1. effect_row(e.op) = {e}
        BY <1>1 DEF effect_row, EffectsMatch
    <2>2. PICK i \in Intended(journal, e.op) : journal[i].kind = e.kind /\ journal[i].input = e.input
        BY <1>1 DEF EffectsMatch
    <2>3. i \in DOMAIN journal /\ journal[i].op = e.op
        BY <2>2 DEF Intended
    <2>4. e.kind # "draft" => effect_row(journal[i].parent) # {}
        BY <1>1, <2>2, <2>3 DEF JournalLine
    <2> QED
        BY <2>1, <2>2, <2>3, <2>4, FS_Singleton
<1>5. ASSUME NEW size \in PageSizes \ {0}, NEW offset \in DOMAIN journal \cup {0}
      PROVE  LET p == page(journal, offset, size)
             IN  /\ Len(p.items) <= size
                 /\ \A n \in p.next : p.items \o SubSeq(journal, n + 1, Len(journal)) =
                                         SubSeq(journal, offset + 1, Len(journal))
                 /\ p.next = {} => p.items = SubSeq(journal, offset + 1, Len(journal))
    <2>1. size \in Nat
        BY ApiAssumption
    <2>2. offset \in 0..Len(journal)
        BY <1>2
    <2> QED
        BY <1>2, <2>1, <2>2, PageTiles
<1> QED
    BY <1>1, <1>3, <1>4, <1>5 DEF ApiJournalSound, JournalLine, EffectsMatch

\* Whatever is lost, retried or raced, the journal is one line, its effects are what it
\* intended and its pages tile it (remember, dispatch, cancel, page).
THEOREM JournalSound == ApiSpec => []ApiJournalSound
<1>1. ApiInit => ApiInv
    BY ApiStarts
<1>2. ApiInv /\ [ApiNext]_apiVars => ApiInv'
    BY ApiSteps
<1>3. ApiInv => ApiJournalSound
    BY ApiSound
<1> QED
    BY <1>1, <1>2, <1>3, PTL DEF ApiSpec

-----------------------------------------------------------------------------
(* Seals and what they retain.                                             *)

\* The walk of a closure, N levels deep.
Walk(roots, N, f) ==
    f = [d \in 0..N |->
            IF d = 0 THEN roots ELSE f[d - 1] \union UNION {children(k) : k \in f[d - 1]}]

\* Children of rows are rows.
LEMMA ChildrenRows == \A k \in RowKeys : children(k) \subseteq RowKeys
  BY SealAssumption DEF children

\* A walk can be taken one level deeper.
LEMMA WalkDeeper ==
  ASSUME NEW roots \in SUBSET RowKeys, NEW n \in Nat \ {0},
         NEW g \in [0..(n - 1) -> SUBSET RowKeys], Walk(roots, n - 1, g)
  PROVE  \E f \in [0..n -> SUBSET RowKeys] : Walk(roots, n, f)
  <1>1. PICK e : e = g[n - 1] \union UNION {children(k) : k \in g[n - 1]}
    OBVIOUS
  <1>2. n - 1 \in 0..(n - 1) /\ n - 1 \in Nat
    OBVIOUS
  <1>3. e \in SUBSET RowKeys
    <2>1. g[n - 1] \in SUBSET RowKeys
      BY <1>2
    <2>2. QED
      BY <2>1, <1>1, ChildrenRows
  <1>4. PICK f : f = [d \in 0..n |-> IF d = n THEN e ELSE g[d]]
    OBVIOUS
  <1>5. \A d \in 0..n : d # n => d \in 0..(n - 1)
    BY <1>2
  <1>6. \A d \in 0..n : d # 0 => d - 1 \in 0..(n - 1) /\ d - 1 \in 0..n /\ d - 1 # n
    BY <1>2
  <1>7. f \in [0..n -> SUBSET RowKeys]
    BY <1>3, <1>4, <1>5
  <1>8. f[n] = e
    BY <1>4
  <1>9. \A d \in 0..(n - 1) : f[d] = g[d]
    <2>1. \A d \in 0..(n - 1) : d \in 0..n /\ d # n
      BY <1>2
    <2>2. QED
      BY <2>1, <1>4
  <1>10. ASSUME NEW d \in 0..n
         PROVE  f[d] = IF d = 0 THEN roots
                       ELSE f[d - 1] \union UNION {children(k) : k \in f[d - 1]}
    <2>1. CASE d = n
      <3>1. f[d] = e /\ f[d - 1] = g[n - 1] /\ d # 0
        BY <2>1, <1>2, <1>8, <1>9
      <3>2. QED
        BY <3>1, <1>1
    <2>2. CASE d # n
      <3>1. d \in 0..(n - 1)
        BY <2>2, <1>5
      <3>2. g[d] = IF d = 0 THEN roots ELSE g[d - 1] \union UNION {children(k) : k \in g[d - 1]}
        BY <3>1 DEF Walk
      <3>3. f[d] = g[d] /\ (d # 0 => f[d - 1] = g[d - 1])
        BY <3>1, <1>6, <1>9
      <3>4. QED
        BY <3>2, <3>3
    <2>3. QED
      BY <2>1, <2>2
  <1>11. Walk(roots, n, f)
    BY <1>4, <1>10 DEF Walk
  <1>12. QED
    BY <1>7, <1>11

\* A walk of any depth stays within the rows: the deepest one could go deeper.
LEMMA WalkExists ==
  ASSUME NEW roots \in SUBSET RowKeys, NEW N \in Nat
  PROVE  \E f \in [0..N -> SUBSET RowKeys] : Walk(roots, N, f)
  <1> DEFINE Walked(n) == \E f \in [0..n -> SUBSET RowKeys] : Walk(roots, n, f)
  <1>1. Walked(0)
    <2>1. PICK f : f = [d \in 0..0 |-> roots]
      OBVIOUS
    <2>2. f \in [0..0 -> SUBSET RowKeys] /\ Walk(roots, 0, f)
      BY <2>1 DEF Walk
    <2>3. QED
      BY <2>2
  <1>2. ASSUME NEW n \in Nat \ {0}, Walked(n - 1) PROVE Walked(n)
    BY <1>2, WalkDeeper
  <1> DEFINE S == {n \in 1..(N + 1) : Walked(n - 1)}
  <1> HIDE DEF Walked
  <1>3. 1 \in S
    <2>1. 1 \in 1..(N + 1) /\ 1 - 1 = 0
      OBVIOUS
    <2>2. QED
      BY <1>1, <2>1
  <1>4. PICK m \in S : \A k \in S : k <= m
    <2>1. N + 1 \in Nat /\ S \subseteq 1..(N + 1)
      OBVIOUS
    <2>2. QED
      BY <1>3, <2>1, LastExists
  <1>5. m = N + 1
    <2>1. SUFFICES ASSUME m # N + 1 PROVE FALSE
      OBVIOUS
    <2>2. m \in 1..N /\ m \in Nat \ {0} /\ m + 1 \in 1..(N + 1) /\ (m + 1) - 1 = m
      BY <2>1
    <2>3. Walked(m)
      BY <1>2, <2>2
    <2>4. m + 1 \in S
      BY <2>2, <2>3
    <2>5. QED
      BY <1>4, <2>2, <2>4
  <1>6. Walked(N)
    <2>1. m - 1 = N
      BY <1>5
    <2>2. QED
      BY <1>4, <2>1
  <1>7. QED
    BY <1>6 DEF Walked

\* What a closure visits are rows.
LEMMA VisitRows ==
  ASSUME NEW roots \in SUBSET RowKeys
  PROVE  visit(roots) \subseteq RowKeys
  <1>1. PICK N \in Nat : N = Cardinality(RowKeys)
    BY SealAssumption, FS_CardinalityType
  <1>2. PICK f : f = CHOOSE step : Walk(roots, N, step)
    OBVIOUS
  <1>3. visit(roots) = f[N]
    BY <1>1, <1>2 DEF visit, Walk
  <1>4. \E g : Walk(roots, N, g)
    BY WalkExists
  <1>5. Walk(roots, N, f)
    BY <1>2, <1>4, Zenon
  <1> DEFINE Within(n) == \A d \in 0..n : f[d] \subseteq RowKeys
  <1>6. Within(0)
    <2>1. 0 \in 0..N /\ 0..0 = {0}
      OBVIOUS
    <2>2. f[0] = roots
      BY <1>5, <2>1 DEF Walk
    <2>3. QED
      BY <2>1, <2>2
  <1>7. ASSUME NEW n \in 1..N, Within(n - 1) PROVE Within(n)
    <2>1. n \in 0..N /\ n # 0 /\ n - 1 \in 0..(n - 1) /\ 0..n = 0..(n - 1) \union {n}
      OBVIOUS
    <2>2. f[n] = f[n - 1] \union UNION {children(k) : k \in f[n - 1]}
      BY <1>5, <2>1 DEF Walk
    <2>3. f[n - 1] \subseteq RowKeys
      BY <1>7, <2>1
    <2>4. f[n] \subseteq RowKeys
      BY <2>2, <2>3, ChildrenRows
    <2>5. QED
      BY <1>7, <2>1, <2>4
  <1> DEFINE S == {n \in 1..(N + 1) : Within(n - 1)}
  <1>8. N \in 0..N
    OBVIOUS
  <1> HIDE DEF Within
  <1>9. 1 \in S
    <2>1. 1 \in 1..(N + 1) /\ 1 - 1 = 0
      OBVIOUS
    <2>2. QED
      BY <1>6, <2>1
  <1>10. PICK m \in S : \A k \in S : k <= m
    <2>1. N + 1 \in Nat /\ S \subseteq 1..(N + 1)
      OBVIOUS
    <2>2. QED
      BY <1>9, <2>1, LastExists
  <1>11. m = N + 1
    <2>1. SUFFICES ASSUME m # N + 1 PROVE FALSE
      OBVIOUS
    <2>2. m \in 1..N /\ m + 1 \in 1..(N + 1) /\ (m + 1) - 1 = m
      BY <2>1
    <2>3. Within(m)
      BY <1>7, <1>10, <2>2
    <2>4. m + 1 \in S
      BY <2>2, <2>3
    <2>5. QED
      BY <1>10, <2>2, <2>4
  <1>12. Within(N)
    <2>1. m - 1 = N
      BY <1>11
    <2>2. QED
      BY <1>10, <2>1
  <1>13. QED
    BY <1>3, <1>8, <1>12 DEF Within

\* Identities of seals, rows of the history, and what a call holds the lock for.
Identity == [native : Natives, gen : Nat, root : {p.root : p \in Publishes}]
SealEvent == [kind : {"seal", "release"}, identity : Identity]
SealTask == [at : {"staged", "submit", "prune"}, op : SealOps \union {"none"},
             identity : Identity \union {NoReceipt},
             kind : {"seal", "alias", "release", "prune"}, authority : Nat, count : Nat]

\* A closure whose rows are there, though perhaps more than once, and which names
\* no row from itself.
Covered(identity) ==
    \A k \in visit({identity.root}) : copies[k] >= 1 /\ ~Cyclic(k)

\* While nobody writes to the history, what was read of it holds.
Ready(t) ==
    CASE t.kind = "seal" -> /\ t.identity \notin SealedIn(seals)
                            /\ Cardinality(live(seals)) < MAX_LIVE_SEALS /\ Len(seals) < MAX_HISTORY
      [] t.kind = "alias" -> t.identity \in SealedIn(seals)
      [] t.kind = "release" -> t.identity \in live(seals) /\ Len(seals) < MAX_HISTORY

\* A statement that may still be committed.
Submitted(t) ==
    /\ t \in SealTask /\ t.at = "submit" /\ t.op \in SealOps
    /\ t.kind \in {"seal", "alias", "release"} /\ t.identity \in Identity
    /\ t.count <= Len(seals)
    /\ t.count = Len(seals) => Ready(t)

\* What holds of a native store while its custody lock is held: a prune found no live
\* seal of it, a seal its marker, its generation and its rows.
Custody(n, t) ==
    /\ t \in SealTask
    /\ t.at = "staged" => t.kind = "seal" /\ t.op \in SealOps /\ t.identity \in Identity
    /\ t.at = "submit" => Submitted(t)
    /\ t.at = "prune" => \A i \in live(seals) \ late : i.native # n
    /\ t.kind = "seal" => /\ t.identity \in Identity /\ t.identity.native = n
                         /\ native[n].marker = "ours" /\ t.identity.gen \in native[n].gens
                         /\ Covered(t.identity)

\* Every lock that is held.
TasksHeld ==
    /\ DOMAIN task = Natives
    /\ \A n \in Natives : task[n] # NoTask => Custody(n, task[n])

\* A native store and its process.
NativeState == [gens : SUBSET Nat, head : Nat, up : BOOLEAN, guard : BOOLEAN,
                marker : {"absent", "partial", "ours"}]

\* The invariant: what the locks and the orphaned statements know, and that a live
\* seal, unless an orphan committed it, is of a store with the marker, which keeps
\* every prune without the application out.
SealInv ==
    /\ native \in [Natives -> NativeState]
    /\ TasksHeld
    /\ copies \in [RowKeys -> Nat]
    /\ seals \in Seq(SealEvent) /\ IsFiniteSet(live(seals))
    /\ DOMAIN receiptOf = SealOps
    /\ grantRows \in Nat
    /\ \A t \in orphans : Submitted(t)
    /\ \A i \in live(seals) \ late : native[i.native].marker = "ours"
    /\ SealsRetained

\* What a history seals, it seals of stores and rows there are.
LEMMA LiveTypes ==
  ASSUME NEW h \in Seq(SealEvent)
  PROVE  /\ SealedIn(h) \subseteq Identity /\ ReleasedIn(h) \subseteq Identity
         /\ live(h) \subseteq SealedIn(h)
  <1>1. \A i \in DOMAIN h : h[i] \in SealEvent
    OBVIOUS
  <1>2. \A i \in DOMAIN h : h[i].identity \in Identity
    BY <1>1 DEF SealEvent
  <1>3. QED
    BY <1>2 DEF SealedIn, ReleasedIn, live

\* What a further seal adds to a history.
LEMMA HistorySealed ==
  ASSUME NEW h \in Seq(SealEvent), NEW i \in Identity,
         NEW g, g = Append(h, [kind |-> "seal", identity |-> i])
  PROVE  /\ g \in Seq(SealEvent) /\ Len(g) = Len(h) + 1 /\ Len(h) \in Nat
         /\ ReleasedIn(g) = ReleasedIn(h) /\ SealedIn(g) = SealedIn(h) \union {i}
         /\ DOMAIN h = 1..Len(h) /\ DOMAIN g = 1..(Len(h) + 1)
         /\ g[Len(h) + 1] = [kind |-> "seal", identity |-> i]
         /\ \A k \in 1..Len(h) : g[k] = h[k]
  <1>1. PICK e \in SealEvent : e = [kind |-> "seal", identity |-> i]
    BY DEF SealEvent
  <1>2. e.kind = "seal" /\ e.identity = i /\ g = Append(h, e)
    BY <1>1
  <1>3. g \in Seq(SealEvent) /\ Len(g) = Len(h) + 1 /\ Len(h) \in Nat
    BY <1>2
  <1>4. DOMAIN h = 1..Len(h) /\ DOMAIN g = 1..(Len(h) + 1)
        /\ 1..(Len(h) + 1) = 1..Len(h) \union {Len(h) + 1}
    BY <1>3
  <1>5. g[Len(h) + 1] = e /\ \A k \in 1..Len(h) : g[k] = h[k]
    BY <1>2
  <1>6. {j \in DOMAIN g : g[j].kind = "seal"}
          = {j \in DOMAIN h : h[j].kind = "seal"} \union {Len(h) + 1}
    BY <1>2, <1>4, <1>5
  <1>7. {j \in DOMAIN g : g[j].kind = "release"} = {j \in DOMAIN h : h[j].kind = "release"}
    BY <1>2, <1>4, <1>5
  <1>8. SealedIn(g) = SealedIn(h) \union {i}
    BY <1>2, <1>4, <1>5, <1>6 DEF SealedIn
  <1>9. ReleasedIn(g) = ReleasedIn(h)
    BY <1>4, <1>5, <1>7 DEF ReleasedIn
  <1>10. QED
    BY <1>1, <1>3, <1>4, <1>5, <1>8, <1>9

\* What a release adds to it.
LEMMA HistoryReleased ==
  ASSUME NEW h \in Seq(SealEvent), NEW i \in Identity,
         NEW g, g = Append(h, [kind |-> "release", identity |-> i])
  PROVE  /\ g \in Seq(SealEvent) /\ Len(g) = Len(h) + 1 /\ Len(h) \in Nat
         /\ SealedIn(g) = SealedIn(h) /\ ReleasedIn(g) = ReleasedIn(h) \union {i}
         /\ DOMAIN h = 1..Len(h) /\ DOMAIN g = 1..(Len(h) + 1)
         /\ g[Len(h) + 1] = [kind |-> "release", identity |-> i]
         /\ \A k \in 1..Len(h) : g[k] = h[k]
  <1>1. PICK e \in SealEvent : e = [kind |-> "release", identity |-> i]
    BY DEF SealEvent
  <1>2. e.kind = "release" /\ e.identity = i /\ g = Append(h, e)
    BY <1>1
  <1>3. g \in Seq(SealEvent) /\ Len(g) = Len(h) + 1 /\ Len(h) \in Nat
    BY <1>2
  <1>4. DOMAIN h = 1..Len(h) /\ DOMAIN g = 1..(Len(h) + 1)
        /\ 1..(Len(h) + 1) = 1..Len(h) \union {Len(h) + 1}
    BY <1>3
  <1>5. g[Len(h) + 1] = e /\ \A k \in 1..Len(h) : g[k] = h[k]
    BY <1>2
  <1>6. {j \in DOMAIN g : g[j].kind = "release"}
          = {j \in DOMAIN h : h[j].kind = "release"} \union {Len(h) + 1}
    BY <1>2, <1>4, <1>5
  <1>7. {j \in DOMAIN g : g[j].kind = "seal"} = {j \in DOMAIN h : h[j].kind = "seal"}
    BY <1>2, <1>4, <1>5
  <1>8. ReleasedIn(g) = ReleasedIn(h) \union {i}
    BY <1>2, <1>4, <1>5, <1>6 DEF ReleasedIn
  <1>9. SealedIn(g) = SealedIn(h)
    BY <1>4, <1>5, <1>7 DEF SealedIn
  <1>10. QED
    BY <1>1, <1>3, <1>4, <1>5, <1>8, <1>9

\* A history stays readable when what it does not hold is sealed within the limits.
LEMMA ReadSealed ==
  ASSUME NEW h \in Seq(SealEvent), history_read(h), IsFiniteSet(live(h)),
         NEW i \in Identity, i \notin SealedIn(h),
         Cardinality(live(h)) < MAX_LIVE_SEALS, Len(h) < MAX_HISTORY,
         NEW g, g = Append(h, [kind |-> "seal", identity |-> i])
  PROVE  /\ g \in Seq(SealEvent) /\ history_read(g) /\ IsFiniteSet(live(g))
         /\ Len(g) = Len(h) + 1 /\ SealedIn(g) = SealedIn(h) \union {i}
         /\ live(g) \subseteq live(h) \union {i}
  <1>1. PICK e : e = [kind |-> "seal", identity |-> i]
    OBVIOUS
  <1>2. e.kind = "seal" /\ e.identity = i
    BY <1>1
  <1>3. /\ g \in Seq(SealEvent) /\ Len(g) = Len(h) + 1 /\ Len(h) \in Nat
        /\ SealedIn(g) = SealedIn(h) \union {i} /\ ReleasedIn(g) = ReleasedIn(h)
    BY HistorySealed
  <1>4. live(g) \subseteq live(h) \union {i}
    BY <1>3 DEF live
  <1>a. Cardinality(live(h)) \in Nat
    BY FS_CardinalityType
  <1>b. IsFiniteSet(live(h) \union {i})
        /\ (\/ Cardinality(live(h) \union {i}) = Cardinality(live(h))
            \/ Cardinality(live(h) \union {i}) = Cardinality(live(h)) + 1)
    BY FS_AddElement
  <1>5. IsFiniteSet(live(h) \union {i}) /\ Cardinality(live(h) \union {i}) <= Cardinality(live(h)) + 1
        /\ Cardinality(live(h)) \in Nat
    BY <1>a, <1>b
  <1>6. IsFiniteSet(live(g)) /\ Cardinality(live(g)) <= Cardinality(live(h) \union {i})
        /\ Cardinality(live(g)) \in Nat /\ Cardinality(live(h) \union {i}) \in Nat
    BY <1>4, <1>5, FS_Subset, FS_CardinalityType
  <1>7. Cardinality(live(g)) <= MAX_LIVE_SEALS /\ Len(g) <= MAX_HISTORY
    BY <1>3, <1>5, <1>6, SealAssumption
  <1>8. DOMAIN h = 1..Len(h) /\ DOMAIN g = 1..(Len(h) + 1) /\ g[Len(h) + 1] = e
        /\ \A k \in 1..Len(h) : g[k] = h[k]
    BY <1>1, HistorySealed
  <1>9. \A k \in 1..Len(h) : h[k] # e
    <2>1. \A k \in 1..Len(h) : h[k].kind = "seal" => h[k].identity # i
      BY <1>8 DEF SealedIn
    <2>2. QED
      BY <2>1, <1>2
  <1>10. \A k, j \in DOMAIN g : g[k] = g[j] => k = j
    BY <1>3, <1>8, <1>9 DEF history_read
  <1>11. ASSUME NEW k \in DOMAIN g, g[k].kind = "release"
         PROVE  \E j \in 1..(k - 1) : g[j].kind = "seal" /\ g[j].identity = g[k].identity
    <2>1. k \in 1..Len(h)
      BY <1>2, <1>3, <1>8, <1>11
    <2>2. PICK j \in 1..(k - 1) : h[j].kind = "seal" /\ h[j].identity = h[k].identity
      BY <1>8, <1>11, <2>1 DEF history_read
    <2>3. j \in 1..Len(h)
      BY <1>3, <2>1
    <2>4. QED
      BY <1>8, <2>1, <2>2, <2>3
  <1>12. history_read(g)
    BY <1>7, <1>10, <1>11 DEF history_read
  <1>13. QED
    BY <1>3, <1>4, <1>6, <1>12

\* It stays readable when what is live in it is released.
LEMMA ReadReleased ==
  ASSUME NEW h \in Seq(SealEvent), history_read(h), IsFiniteSet(live(h)),
         NEW i \in Identity, i \in live(h), Len(h) < MAX_HISTORY,
         NEW g, g = Append(h, [kind |-> "release", identity |-> i])
  PROVE  /\ g \in Seq(SealEvent) /\ history_read(g) /\ IsFiniteSet(live(g))
         /\ Len(g) = Len(h) + 1 /\ SealedIn(g) = SealedIn(h)
         /\ live(g) \subseteq live(h)
  <1>1. PICK e : e = [kind |-> "release", identity |-> i]
    OBVIOUS
  <1>2. e.kind = "release" /\ e.identity = i
    BY <1>1
  <1>3. /\ g \in Seq(SealEvent) /\ Len(g) = Len(h) + 1 /\ Len(h) \in Nat
        /\ SealedIn(g) = SealedIn(h) /\ ReleasedIn(g) = ReleasedIn(h) \union {i}
    BY HistoryReleased
  <1>4. live(g) \subseteq live(h)
    BY <1>3 DEF live
  <1>5. IsFiniteSet(live(g)) /\ Cardinality(live(g)) <= Cardinality(live(h))
        /\ Cardinality(live(g)) \in Nat /\ Cardinality(live(h)) \in Nat
    BY <1>4, FS_Subset, FS_CardinalityType
  <1>6. Cardinality(live(g)) <= MAX_LIVE_SEALS /\ Len(g) <= MAX_HISTORY
    BY <1>3, <1>5, SealAssumption DEF history_read
  <1>7. DOMAIN h = 1..Len(h) /\ DOMAIN g = 1..(Len(h) + 1) /\ g[Len(h) + 1] = e
        /\ \A k \in 1..Len(h) : g[k] = h[k]
    BY <1>1, HistoryReleased
  <1>8. i \in SealedIn(h) /\ i \notin ReleasedIn(h)
    BY DEF live
  <1>9. \A k \in 1..Len(h) : h[k] # e
    <2>1. \A k \in 1..Len(h) : h[k].kind = "release" => h[k].identity # i
      BY <1>7, <1>8 DEF ReleasedIn
    <2>2. QED
      BY <2>1, <1>2
  <1>10. \A k, j \in DOMAIN g : g[k] = g[j] => k = j
    BY <1>3, <1>7, <1>9 DEF history_read
  <1>11. ASSUME NEW k \in DOMAIN g, g[k].kind = "release"
         PROVE  \E j \in 1..(k - 1) : g[j].kind = "seal" /\ g[j].identity = g[k].identity
    <2>1. CASE k = Len(h) + 1
      <3>1. PICK j \in 1..Len(h) : h[j].kind = "seal" /\ h[j].identity = i
        BY <1>7, <1>8 DEF SealedIn
      <3>2. j \in 1..(k - 1) /\ g[j] = h[j] /\ g[k].identity = i
        BY <1>2, <1>3, <1>7, <2>1, <3>1
      <3>3. QED
        BY <3>1, <3>2
    <2>2. CASE k # Len(h) + 1
      <3>1. k \in 1..Len(h)
        BY <1>3, <1>7, <2>2
      <3>2. PICK j \in 1..(k - 1) : h[j].kind = "seal" /\ h[j].identity = h[k].identity
        BY <1>7, <1>11, <3>1 DEF history_read
      <3>3. j \in 1..Len(h)
        BY <1>3, <3>1
      <3>4. QED
        BY <1>7, <3>1, <3>2, <3>3
    <2>3. QED
      BY <2>1, <2>2
  <1>12. history_read(g)
    BY <1>6, <1>10, <1>11 DEF history_read
  <1>13. QED
    BY <1>3, <1>4, <1>5, <1>12

\* What a step leaves in the locks is what holds of each lock after it.
LEMMA TasksNext ==
  ASSUME DOMAIN task' = Natives,
         \A n \in Natives : \A u : u = task'[n] /\ u # NoTask => Custody(n, u)'
  PROVE  TasksHeld'
  <1>1. ASSUME NEW n \in Natives, task'[n] # NoTask
        PROVE  Custody(n, task[n])'
    <2>1. PICK u : u = task'[n]
      OBVIOUS
    <2>2. Custody(n, u)'
      BY <1>1, <2>1
    <2>3. QED
      BY <2>1, <2>2 DEF Custody, Submitted, Ready, Covered
  <1>2. QED
    BY <1>1 DEF TasksHeld

\* A statement stays what it was read for while the history is the one it was read
\* from; after another event its condition fails.
LEMMA StillSubmitted ==
  ASSUME NEW u, Submitted(u), seals \in Seq(SealEvent),
         \/ seals' = seals
         \/ Len(seals') = Len(seals) + 1
  PROVE  Submitted(u)'
  <1>1. u.count \in Nat /\ Len(seals) \in Nat /\ u.count <= Len(seals)
    BY DEF Submitted, SealTask
  <1>2. CASE seals' = seals
    BY <1>2 DEF Submitted, Ready
  <1>3. CASE Len(seals') = Len(seals) + 1
    <2>1. u.count <= Len(seals') /\ u.count # Len(seals')
      BY <1>1, <1>3
    <2>2. QED
      BY <2>1 DEF Submitted
  <1>4. QED
    BY <1>2, <1>3

\* What holds of a lock stays when the store keeps its marker and generations, rows
\* are only added, and nothing becomes live of a store that is pruned.
LEMMA CustodyStays ==
  ASSUME NEW n \in Natives, NEW u, Custody(n, u), seals \in Seq(SealEvent),
         copies \in [RowKeys -> Nat],
         \/ seals' = seals
         \/ Len(seals') = Len(seals) + 1,
         u.at = "prune" => \A i \in (live(seals) \ late)' : i \in live(seals) \ late \/ i.native # n,
         u.kind = "seal" => /\ native[n].marker = "ours" => native'[n].marker = "ours"
                            /\ native[n].gens \subseteq native'[n].gens,
         \A k \in RowKeys : copies'[k] \in Nat /\ copies'[k] >= copies[k]
  PROVE  Custody(n, u)'
  <1>1. u.at = "submit" => Submitted(u)'
    BY StillSubmitted DEF Custody
  <1>2. u.kind = "seal" => Covered(u.identity)'
    <2>1. SUFFICES ASSUME u.kind = "seal" PROVE Covered(u.identity)'
      OBVIOUS
    <2>2. u.identity \in Identity
      BY <2>1 DEF Custody
    <2>3. visit({u.identity.root}) \subseteq RowKeys
      BY <2>2, VisitRows, SealAssumption DEF Identity
    <2>4. Covered(u.identity)
      BY <2>1 DEF Custody
    <2>5. ASSUME NEW k \in visit({u.identity.root})
          PROVE  copies'[k] >= 1 /\ ~Cyclic(k)
      <3>1. k \in RowKeys /\ copies[k] >= 1 /\ ~Cyclic(k)
        BY <2>3, <2>4 DEF Covered
      <3>2. copies[k] \in Nat /\ copies'[k] \in Nat /\ copies'[k] >= copies[k]
        BY <3>1
      <3>3. QED
        BY <3>1, <3>2
    <2>6. QED
      BY <2>5 DEF Covered
  <1>3. QED
    BY <1>1, <1>2 DEF Custody

\* What is retained stays so while its generation does.
LEMMA RetainedStays ==
  ASSUME NEW i \in Identity, Retained(i), i.gen \in native'[i.native].gens,
         copies \in [RowKeys -> Nat],
         \A k \in RowKeys : copies'[k] \in Nat /\ copies'[k] >= copies[k]
  PROVE  Retained(i)'
  <1>1. visit({i.root}) \subseteq RowKeys
    BY VisitRows, SealAssumption DEF Identity
  <1>2. ASSUME NEW k \in visit({i.root})
        PROVE  copies'[k] >= 1 /\ ~Cyclic(k)
    <2>1. k \in RowKeys /\ copies[k] >= 1 /\ ~Cyclic(k)
      BY <1>1 DEF Retained
    <2>2. copies[k] \in Nat /\ copies'[k] \in Nat /\ copies'[k] >= copies[k]
      BY <2>1
    <2>3. QED
      BY <2>1, <2>2
  <1>3. QED
    BY <1>2 DEF Retained

\* Steps that leave the history alone: a generation goes only from a store no live
\* seal is of, whose lock is given up with it.
LEMMA SealMoves ==
  ASSUME SealInv, native' \in [Natives -> NativeState],
         \A m \in Natives : native[m].marker = "ours" => native'[m].marker = "ours",
         \A m \in Natives : \/ native[m].gens \subseteq native'[m].gens
                            \/ /\ task'[m] = NoTask
                               /\ \A i \in live(seals) \ late : i.native # m,
         copies' \in [RowKeys -> Nat], \A k \in RowKeys : copies'[k] >= copies[k],
         seals' = seals, receiptOf' = receiptOf, late' = late, grantRows' \in Nat,
         DOMAIN task' = Natives,
         \A m \in Natives : \A u : u = task'[m] => u \in {task[m], NoTask} \/ Custody(m, u),
         \A t \in orphans' : Submitted(t)
  PROVE  SealInv'
  <1>1. /\ native \in [Natives -> NativeState] /\ copies \in [RowKeys -> Nat]
        /\ seals \in Seq(SealEvent) /\ IsFiniteSet(live(seals)) /\ DOMAIN receiptOf = SealOps
        /\ \A i \in live(seals) \ late : native[i.native].marker = "ours"
        /\ \A i \in live(seals) \ late : Retained(i)
    BY DEF SealInv, SealsRetained
  <1>2. live(seals)' = live(seals) /\ SealedIn(seals)' = SealedIn(seals)
    OBVIOUS
  <1>3. live(seals) \subseteq Identity
    BY <1>1, LiveTypes
  <1>4. \A k \in RowKeys : copies'[k] \in Nat /\ copies'[k] >= copies[k]
    OBVIOUS
  <1>5. TasksHeld'
    <2>1. ASSUME NEW m \in Natives, NEW u, u = task'[m], u # NoTask
          PROVE  Custody(m, u)'
      <3>1. Custody(m, u)
        BY <2>1 DEF SealInv, TasksHeld
      <3>2. native[m].gens \subseteq native'[m].gens
        BY <2>1
      <3>3. \A i \in (live(seals) \ late)' : i \in live(seals) \ late
        BY <1>2
      <3>4. QED
        BY <1>1, <1>4, <3>1, <3>2, <3>3, CustodyStays
    <2>2. QED
      BY <2>1, TasksNext
  <1>6. \A t \in orphans' : Submitted(t)'
    BY <1>1, StillSubmitted
  <1>7. ASSUME NEW i \in live(seals) \ late
        PROVE  native'[i.native].marker = "ours" /\ Retained(i)'
    <2>1. i \in Identity /\ i.native \in Natives
      BY <1>3 DEF Identity
    <2>2. native'[i.native].marker = "ours"
      BY <1>1, <2>1
    <2>3. native[i.native].gens \subseteq native'[i.native].gens
      BY <2>1
    <2>4. i.gen \in native'[i.native].gens
      BY <1>1, <2>3 DEF Retained
    <2>5. QED
      BY <1>1, <1>4, <2>1, <2>2, <2>4, RetainedStays
  <1>8. SealsRetained'
    <2>1. history_read(seals)'
      BY DEF SealInv, SealsRetained, history_read
    <2>2. \A i \in (live(seals) \ late)' : Retained(i)'
      BY <1>2, <1>7
    <2>3. \A o \in SealOps : receiptOf'[o] # NoReceipt => receiptOf'[o] \in SealedIn(seals)'
      BY <1>2 DEF SealInv, SealsRetained
    <2>4. QED
      BY <2>1, <2>2, <2>3 DEF SealsRetained
  <1>9. \A i \in (live(seals) \ late)' : native'[i.native].marker = "ours"
    BY <1>2, <1>7
  <1>10. QED
    BY <1>1, <1>2, <1>5, <1>6, <1>8, <1>9 DEF SealInv

\* A statement that commits leaves a readable history, with its receipt in it.
LEMMA SealCommitted ==
  ASSUME SealInv, NEW t, Submitted(t), CommitHolds(t), SealCommits(t)
  PROVE  /\ seals' \in Seq(SealEvent) /\ history_read(seals') /\ IsFiniteSet(live(seals'))
         /\ seals' = seals \/ Len(seals') = Len(seals) + 1
         /\ \A i \in live(seals') : i \in live(seals) \/ (t.kind = "seal" /\ i = t.identity)
         /\ DOMAIN receiptOf' = SealOps
         /\ \A o \in SealOps : receiptOf'[o] # NoReceipt => receiptOf'[o] \in SealedIn(seals')
  <1>1. /\ seals \in Seq(SealEvent) /\ history_read(seals) /\ IsFiniteSet(live(seals))
        /\ DOMAIN receiptOf = SealOps
        /\ \A o \in SealOps : receiptOf[o] # NoReceipt => receiptOf[o] \in SealedIn(seals)
    BY DEF SealInv, SealsRetained
  <1>2. t.op \in SealOps /\ t.kind \in {"seal", "alias", "release"} /\ t.identity \in Identity /\ Ready(t)
    BY DEF Submitted, CommitHolds, history_guard
  <1>3. receiptOf' = [receiptOf EXCEPT ![t.op] = t.identity]
    BY DEF SealCommits
  <1>4. /\ seals' \in Seq(SealEvent) /\ history_read(seals') /\ IsFiniteSet(live(seals'))
        /\ seals' = seals \/ Len(seals') = Len(seals) + 1
        /\ \A i \in live(seals') : i \in live(seals) \/ (t.kind = "seal" /\ i = t.identity)
        /\ SealedIn(seals) \subseteq SealedIn(seals') /\ t.identity \in SealedIn(seals')
    <2>1. CASE t.kind = "alias"
      <3>1. seals' = seals
        BY <2>1 DEF SealCommits
      <3>2. t.identity \in SealedIn(seals)
        BY <1>2, <2>1 DEF Ready
      <3>3. QED
        BY <1>1, <3>1, <3>2
    <2>2. CASE t.kind = "seal"
      <3>1. PICK i \in Identity : i = t.identity
        BY <1>2
      <3>2. PICK h : h = seals
        OBVIOUS
      <3>3. PICK g : g = seals'
        OBVIOUS
      <3>4. g = Append(h, [kind |-> "seal", identity |-> i])
        BY <2>2, <3>1, <3>2, <3>3 DEF SealCommits
      <3>5. /\ i \notin SealedIn(h) /\ Cardinality(live(h)) < MAX_LIVE_SEALS
            /\ Len(h) < MAX_HISTORY
        BY <1>2, <2>2, <3>1, <3>2 DEF Ready
      <3>6. h \in Seq(SealEvent) /\ history_read(h) /\ IsFiniteSet(live(h))
        BY <1>1, <3>2
      <3>7. \A k \in Seq(SealEvent) : history_read(k) /\ IsFiniteSet(live(k)) =>
              \A d \in Identity : /\ d \notin SealedIn(k) /\ Cardinality(live(k)) < MAX_LIVE_SEALS
                                 /\ Len(k) < MAX_HISTORY
                => \A f : f = Append(k, [kind |-> "seal", identity |-> d]) =>
                     /\ f \in Seq(SealEvent) /\ history_read(f) /\ IsFiniteSet(live(f))
                     /\ Len(f) = Len(k) + 1 /\ SealedIn(f) = SealedIn(k) \union {d}
                     /\ live(f) \subseteq live(k) \union {d}
        BY ReadSealed
      <3>8. /\ g \in Seq(SealEvent) /\ history_read(g) /\ IsFiniteSet(live(g))
            /\ Len(g) = Len(h) + 1 /\ SealedIn(g) = SealedIn(h) \union {i}
            /\ live(g) \subseteq live(h) \union {i}
        <4>1. \A d \in Identity : /\ d \notin SealedIn(h) /\ Cardinality(live(h)) < MAX_LIVE_SEALS
                                 /\ Len(h) < MAX_HISTORY
                => \A f : f = Append(h, [kind |-> "seal", identity |-> d]) =>
                     /\ f \in Seq(SealEvent) /\ history_read(f) /\ IsFiniteSet(live(f))
                     /\ Len(f) = Len(h) + 1 /\ SealedIn(f) = SealedIn(h) \union {d}
                     /\ live(f) \subseteq live(h) \union {d}
          BY <3>6, <3>7
        <4>2. \A f : f = Append(h, [kind |-> "seal", identity |-> i]) =>
                     /\ f \in Seq(SealEvent) /\ history_read(f) /\ IsFiniteSet(live(f))
                     /\ Len(f) = Len(h) + 1 /\ SealedIn(f) = SealedIn(h) \union {i}
                     /\ live(f) \subseteq live(h) \union {i}
          BY <3>5, <4>1
        <4>3. QED
          BY <3>4, <4>2
      <3>9. QED
        BY <2>2, <3>1, <3>2, <3>3, <3>8
    <2>3. CASE t.kind = "release"
      <3>1. PICK i \in Identity : i = t.identity
        BY <1>2
      <3>2. PICK h : h = seals
        OBVIOUS
      <3>3. PICK g : g = seals'
        OBVIOUS
      <3>4. g = Append(h, [kind |-> "release", identity |-> i])
        BY <2>3, <3>1, <3>2, <3>3 DEF SealCommits
      <3>5. i \in live(h) /\ Len(h) < MAX_HISTORY
        BY <1>2, <2>3, <3>1, <3>2 DEF Ready
      <3>6. h \in Seq(SealEvent) /\ history_read(h) /\ IsFiniteSet(live(h))
        BY <1>1, <3>2
      <3>7. /\ g \in Seq(SealEvent) /\ history_read(g) /\ IsFiniteSet(live(g))
            /\ Len(g) = Len(h) + 1 /\ SealedIn(g) = SealedIn(h)
            /\ live(g) \subseteq live(h)
        BY <3>4, <3>5, <3>6, ReadReleased
      <3>8. i \in SealedIn(h)
        BY <3>5 DEF live
      <3>9. QED
        BY <2>3, <3>1, <3>2, <3>3, <3>7, <3>8
    <2>4. QED
      BY <1>2, <2>1, <2>2, <2>3
  <1>5. DOMAIN receiptOf' = SealOps
    BY <1>1, <1>3
  <1>6. ASSUME NEW o \in SealOps, receiptOf'[o] # NoReceipt
        PROVE  receiptOf'[o] \in SealedIn(seals')
    <2>1. receiptOf'[o] = t.identity \/ receiptOf'[o] = receiptOf[o]
      BY <1>1, <1>3
    <2>2. QED
      BY <1>1, <1>4, <1>6, <2>1
  <1>7. QED
    BY <1>4, <1>5, <1>6

\* Steps that write the history: what becomes live does so under the lock of its
\* store, or is known to be late.
LEMMA HistoryMoves ==
  ASSUME SealInv, NEW t, Submitted(t), CommitHolds(t), SealCommits(t),
         UNCHANGED <<native, copies, grantRows>>,
         DOMAIN task' = Natives, \A m \in Natives : task'[m] \in {task[m], NoTask},
         orphans' \subseteq orphans, late \subseteq late',
         \/ t.kind # "seal"
         \/ t.identity \in late'
         \/ /\ Custody(t.identity.native, t) /\ t.identity.native \in Natives
            /\ task'[t.identity.native] = NoTask
  PROVE  SealInv'
  <1>1. /\ native \in [Natives -> NativeState] /\ copies \in [RowKeys -> Nat]
        /\ seals \in Seq(SealEvent) /\ grantRows \in Nat
        /\ \A i \in live(seals) \ late : native[i.native].marker = "ours"
        /\ \A i \in live(seals) \ late : Retained(i)
        /\ \A u \in orphans : Submitted(u)
    BY DEF SealInv, SealsRetained
  <1>2. /\ seals' \in Seq(SealEvent) /\ history_read(seals') /\ IsFiniteSet(live(seals'))
        /\ seals' = seals \/ Len(seals') = Len(seals) + 1
        /\ \A i \in live(seals') : i \in live(seals) \/ (t.kind = "seal" /\ i = t.identity)
        /\ DOMAIN receiptOf' = SealOps
        /\ \A o \in SealOps : receiptOf'[o] # NoReceipt => receiptOf'[o] \in SealedIn(seals')
    BY SealCommitted
  <1>3. ASSUME NEW i \in live(seals') \ late'
        PROVE  \/ i \in live(seals) \ late
               \/ /\ t.kind = "seal" /\ i = t.identity
                  /\ i.native \in Natives /\ task'[i.native] = NoTask
                  /\ native[i.native].marker = "ours" /\ Retained(i)
    <2>1. CASE i \in live(seals)
      BY <2>1
    <2>2. CASE t.kind = "seal" /\ i = t.identity
      BY <2>2 DEF Custody, Covered, Retained
    <2>3. QED
      BY <1>2, <2>1, <2>2
  <1>4. TasksHeld'
    <2>1. ASSUME NEW m \in Natives, NEW u, u = task'[m], u # NoTask
          PROVE  Custody(m, u)'
      <3>1. Custody(m, u)
        BY <2>1 DEF SealInv, TasksHeld
      <3>2. \A i \in live(seals') \ late' : i \in live(seals) \ late \/ i.native # m
        BY <1>3, <2>1
      <3>3. \A k \in RowKeys : copies'[k] \in Nat /\ copies'[k] >= copies[k]
        BY <1>1
      <3>4. QED
        BY <1>1, <1>2, <3>1, <3>2, <3>3, CustodyStays
    <2>2. QED
      BY <2>1, TasksNext
  <1>5. \A u \in orphans' : Submitted(u)'
    BY <1>1, <1>2, StillSubmitted
  <1>6. \A i \in live(seals') \ late' : native'[i.native].marker = "ours" /\ Retained(i)'
    BY <1>1, <1>3 DEF Retained
  <1>7. SealsRetained'
    BY <1>2, <1>6 DEF SealsRetained, history_read
  <1>8. QED
    BY <1>1, <1>2, <1>4, <1>5, <1>6, <1>7 DEF SealInv

\* What the steps below need of the invariant.
LEMMA SealFacts ==
  ASSUME SealInv
  PROVE  /\ native \in [Natives -> NativeState] /\ copies \in [RowKeys -> Nat] /\ grantRows \in Nat
         /\ seals \in Seq(SealEvent) /\ DOMAIN task = Natives /\ Len(seals) \in Nat
         /\ \A t \in orphans : Submitted(t)
         /\ \A k \in RowKeys : copies[k] >= copies[k]
  <1>1. /\ native \in [Natives -> NativeState] /\ copies \in [RowKeys -> Nat] /\ grantRows \in Nat
        /\ seals \in Seq(SealEvent) /\ DOMAIN task = Natives
        /\ \A t \in orphans : Submitted(t)
    BY DEF SealInv, TasksHeld
  <1>2. \A k \in RowKeys : copies[k] \in Nat
    BY <1>1
  <1>3. \A k \in RowKeys : copies[k] >= copies[k]
    BY <1>2
  <1>4. QED
    BY <1>1, <1>3

\* A native store selects a generation, opens, or gets its marker or half of it.
LEMMA NativeMoves ==
  ASSUME SealInv, NEW n \in Natives,
         \/ checkpoint_native(n) \/ capture(n) \/ open_seals(n) \/ DiesInOpen(n) \/ open_native(n)
  PROVE  SealInv'
  <1>1. native[n] \in NativeState /\ native \in [Natives -> NativeState]
    BY SealFacts
  <1>2. UNCHANGED <<task, copies, seals, receiptOf, grantRows, orphans, late>>
    BY DEF checkpoint_native, capture, open_seals, DiesInOpen, open_native, Rest
  <1>3. \E s \in NativeState : /\ native' = [native EXCEPT ![n] = s]
                               /\ native[n].gens \subseteq s.gens
                               /\ native[n].marker = "ours" => s.marker = "ours"
    <2>1. CASE checkpoint_native(n) \/ capture(n)
      <3>1. PICK s : s = [native[n] EXCEPT !.head = native[n].head + 1,
                                           !.gens = native[n].gens \union {native[n].head + 1}]
        OBVIOUS
      <3>2. native' = [native EXCEPT ![n] = s]
        BY <1>1, <2>1, <3>1 DEF checkpoint_native, capture, NativeState
      <3>3. s \in NativeState /\ native[n].gens \subseteq s.gens /\ s.marker = native[n].marker
        <4>1. native[n].head \in Nat /\ native[n].gens \in SUBSET Nat
          BY <1>1 DEF NativeState
        <4>2. PICK h, g : h = native[n].head + 1 /\ g = native[n].gens \union {native[n].head + 1}
          OBVIOUS
        <4>3. h \in Nat /\ g \in SUBSET Nat /\ native[n].gens \subseteq g
          BY <4>1, <4>2
        <4>4. s = [native[n] EXCEPT !.head = h, !.gens = g]
          BY <3>1, <4>2
        <4>5. QED
          BY <1>1, <4>3, <4>4 DEF NativeState
      <3>4. QED
        BY <3>2, <3>3
    <2>2. CASE open_seals(n)
      <3>1. PICK s : s = [native[n] EXCEPT !.marker = "ours", !.guard = TRUE]
        OBVIOUS
      <3>2. native' = [native EXCEPT ![n] = s]
        BY <1>1, <2>2, <3>1 DEF open_seals, NativeState
      <3>3. s \in NativeState /\ s.gens = native[n].gens /\ s.marker = "ours"
        BY <1>1, <3>1 DEF NativeState
      <3>4. QED
        BY <3>2, <3>3
    <2>3. CASE DiesInOpen(n)
      <3>1. PICK s : s = [native[n] EXCEPT !.marker = "partial", !.up = FALSE]
        OBVIOUS
      <3>2. native' = [native EXCEPT ![n] = s] /\ native[n].marker = "absent"
        BY <1>1, <2>3, <3>1 DEF DiesInOpen, NativeState
      <3>3. s \in NativeState /\ s.gens = native[n].gens
        BY <1>1, <3>1 DEF NativeState
      <3>4. QED
        BY <3>2, <3>3
    <2>4. CASE open_native(n)
      <3>1. PICK s : s = [native[n] EXCEPT !.up = TRUE, !.guard = FALSE]
        OBVIOUS
      <3>2. native' = [native EXCEPT ![n] = s]
        BY <1>1, <2>4, <3>1 DEF open_native, NativeState
      <3>3. s \in NativeState /\ s.gens = native[n].gens /\ s.marker = native[n].marker
        BY <1>1, <3>1 DEF NativeState
      <3>4. QED
        BY <3>2, <3>3
    <2>5. QED
      BY <2>1, <2>2, <2>3, <2>4
  <1>4. PICK s \in NativeState : /\ native' = [native EXCEPT ![n] = s]
                                 /\ native[n].gens \subseteq s.gens
                                 /\ native[n].marker = "ours" => s.marker = "ours"
    BY <1>3
  <1>5. native' \in [Natives -> NativeState]
    BY <1>1, <1>4
  <1>6. ASSUME NEW m \in Natives
        PROVE  /\ native[m].marker = "ours" => native'[m].marker = "ours"
               /\ native[m].gens \subseteq native'[m].gens
    BY <1>1, <1>4
  <1>7. QED
    BY <1>2, <1>5, <1>6, SealFacts, SealMoves

\* A lock is taken, moved on or given up, with what its call knows.
LEMMA TaskMoves ==
  ASSUME SealInv, NEW n \in Natives, NEW t, t = NoTask \/ Custody(n, t),
         task' = [task EXCEPT ![n] = t],
         UNCHANGED <<native, copies, seals, receiptOf, grantRows, orphans, late>>
  PROVE  SealInv'
  <1>1. DOMAIN task' = Natives
    BY SealFacts
  <1>2. \A m \in Natives : task'[m] = IF m = n THEN t ELSE task[m]
    BY SealFacts
  <1>3. \A m \in Natives : \A u : u = task'[m] => u \in {task[m], NoTask} \/ Custody(m, u)
    BY <1>2
  <1>4. QED
    BY <1>1, <1>3, SealFacts, SealMoves

\* A seal is staged: its closure is whole and its generation there.
LEMMA Stages ==
  ASSUME SealInv, NEW n \in Natives, NEW p \in Publishes, NEW gen, seal_stage(n, p, gen)
  PROVE  SealInv'
  <1>1. PICK i : i = [native |-> n, gen |-> gen, root |-> p.root]
    OBVIOUS
  <1>2. PICK t : t = [at |-> "staged", op |-> p.op, identity |-> i, kind |-> "seal",
                      authority |-> grantRows, count |-> 0]
    OBVIOUS
  <1>3. /\ native[n].marker = "ours" /\ task' = [task EXCEPT ![n] = t]
        /\ closure(i.root) /\ i.gen \in native[n].gens
        /\ UNCHANGED <<native, copies, seals, receiptOf, grantRows, orphans, late>>
    BY <1>1, <1>2 DEF seal_stage, require_guard, Locks, manifest_stage, native_verify, Rest
  <1>4. i \in Identity /\ i.native = n
    <2>1. native[n].gens \subseteq Nat
      BY SealFacts DEF NativeState
    <2>2. QED
      BY <1>1, <1>3, <2>1 DEF Identity
  <1>5. Covered(i)
    <2>1. {i.root} \in SUBSET RowKeys
      BY <1>4, SealAssumption DEF Identity
    <2>2. visit({i.root}) \subseteq RowKeys
      BY <2>1, VisitRows
    <2>3. \A k \in visit({i.root}) : copies[k] = 1 /\ ~Cyclic(k)
      BY <1>3 DEF closure
    <2>4. QED
      BY <2>3 DEF Covered
  <1>6. t \in SealTask
    <2>1. p.op \in SealOps /\ grantRows \in Nat /\ 0 \in Nat
      BY SealFacts DEF SealOps
    <2>2. QED
      BY <1>2, <1>4, <2>1 DEF SealTask
  <1>7. t.op \in SealOps
    BY <1>2 DEF SealOps
  <1>8. Custody(n, t)
    BY <1>2, <1>3, <1>4, <1>5, <1>6, <1>7 DEF Custody
  <1>9. QED
    BY <1>3, <1>8, TaskMoves

\* A staged seal is admitted on the history it finds, or the lock is given up.
LEMMA Admits ==
  ASSUME SealInv, NEW n \in Natives, seal_admit(n)
  PROVE  SealInv'
  <1>1. PICK t : t = task[n]
    OBVIOUS
  <1>2. /\ t # NoTask /\ t.at = "staged" /\ Custody(n, t)
        /\ UNCHANGED <<native, copies, seals, receiptOf, grantRows, orphans, late>>
    BY <1>1 DEF SealInv, TasksHeld, seal_admit, Rest
  <1>3. /\ t \in SealTask /\ t.kind = "seal" /\ t.op \in SealOps /\ t.identity \in Identity
        /\ t.identity.native = n /\ native[n].marker = "ours" /\ t.identity.gen \in native[n].gens
        /\ Covered(t.identity)
    BY <1>2 DEF Custody
  <1>4. \/ task' = [task EXCEPT ![n] = NoTask]
        \/ /\ t.identity \in SealedIn(seals)
           /\ task' = [task EXCEPT ![n] = [t EXCEPT !.at = "submit", !.kind = "alias", !.count = Len(seals)]]
        \/ /\ t.identity \notin SealedIn(seals)
           /\ Cardinality(live(seals)) < MAX_LIVE_SEALS /\ Len(seals) < MAX_HISTORY
           /\ task' = [task EXCEPT ![n] = [t EXCEPT !.at = "submit", !.count = Len(seals)]]
    BY <1>1 DEF seal_admit, Unlocks, Moves
  <1>5. Len(seals) \in Nat /\ Len(seals) <= Len(seals)
    BY SealFacts
  <1>6. CASE task' = [task EXCEPT ![n] = NoTask]
    BY <1>2, <1>6, TaskMoves
  <1>7. CASE /\ t.identity \in SealedIn(seals)
             /\ task' = [task EXCEPT ![n] = [t EXCEPT !.at = "submit", !.kind = "alias", !.count = Len(seals)]]
    <2>1. PICK u : u = [t EXCEPT !.at = "submit", !.kind = "alias", !.count = Len(seals)]
      OBVIOUS
    <2>2. /\ u \in SealTask /\ u.at = "submit" /\ u.kind = "alias" /\ u.count = Len(seals)
          /\ u.op = t.op /\ u.identity = t.identity
      BY <1>3, <1>5, <2>1 DEF SealTask
    <2>3. Submitted(u)
      BY <1>3, <1>5, <1>7, <2>2 DEF Submitted, Ready
    <2>4. Custody(n, u)
      BY <2>2, <2>3 DEF Custody
    <2>5. QED
      BY <1>2, <1>7, <2>1, <2>4, TaskMoves
  <1>8. CASE /\ t.identity \notin SealedIn(seals)
             /\ Cardinality(live(seals)) < MAX_LIVE_SEALS /\ Len(seals) < MAX_HISTORY
             /\ task' = [task EXCEPT ![n] = [t EXCEPT !.at = "submit", !.count = Len(seals)]]
    <2>1. PICK u : u = [t EXCEPT !.at = "submit", !.count = Len(seals)]
      OBVIOUS
    <2>2. /\ u \in SealTask /\ u.at = "submit" /\ u.kind = "seal" /\ u.count = Len(seals)
          /\ u.op = t.op /\ u.identity = t.identity
      BY <1>3, <1>5, <2>1 DEF SealTask
    <2>3. Submitted(u)
      BY <1>3, <1>5, <1>8, <2>2 DEF Submitted, Ready
    <2>4. Custody(n, u)
      BY <1>3, <2>2, <2>3 DEF Custody
    <2>5. QED
      BY <1>2, <1>8, <2>1, <2>4, TaskMoves
  <1>9. QED
    BY <1>4, <1>6, <1>7, <1>8

\* A live seal is to be released.
LEMMA Releasing ==
  ASSUME SealInv, NEW n \in Natives, NEW op \in Releases, NEW i, release_seal(n, op, i)
  PROVE  SealInv'
  <1>1. PICK t : t = [at |-> "submit", op |-> op, identity |-> i, kind |-> "release",
                      authority |-> grantRows, count |-> Len(seals)]
    OBVIOUS
  <1>2. /\ i \in live(seals) /\ Len(seals) < MAX_HISTORY /\ task' = [task EXCEPT ![n] = t]
        /\ UNCHANGED <<native, copies, seals, receiptOf, grantRows, orphans, late>>
    BY <1>1 DEF release_seal, Locks, Rest
  <1>3. /\ Len(seals) \in Nat /\ Len(seals) <= Len(seals) /\ grantRows \in Nat
        /\ seals \in Seq(SealEvent)
    BY SealFacts
  <1>4. i \in Identity /\ op \in SealOps
    BY <1>2, <1>3, LiveTypes DEF SealOps
  <1>5. t \in SealTask
    BY <1>1, <1>3, <1>4 DEF SealTask
  <1>6. Submitted(t)
    BY <1>1, <1>2, <1>3, <1>4, <1>5 DEF Submitted, Ready
  <1>7. Custody(n, t)
    BY <1>1, <1>5, <1>6 DEF Custody
  <1>8. QED
    BY <1>2, <1>7, TaskMoves

\* A prune begins only where no seal is live of the store.
LEMMA Pruning ==
  ASSUME SealInv, NEW n \in Natives, prune_begins(n)
  PROVE  SealInv'
  <1>1. PICK t : t = [at |-> "prune", op |-> "none", identity |-> NoReceipt, kind |-> "prune",
                      authority |-> 0, count |-> 0]
    OBVIOUS
  <1>2. /\ task' = [task EXCEPT ![n] = t]
        /\ UNCHANGED <<native, copies, seals, receiptOf, grantRows, orphans, late>>
        /\ live(seals) = {} \/ native[n].marker = "absent"
    BY <1>1 DEF prune_begins, check_prune, unguarded, Locks, Rest
  <1>3. t \in SealTask
    <2>1. 0 \in Nat
      OBVIOUS
    <2>2. QED
      BY <1>1, <2>1 DEF SealTask
  <1>4. \A i \in live(seals) \ late : i.native # n
    BY <1>2 DEF SealInv
  <1>5. Custody(n, t)
    BY <1>1, <1>3, <1>4 DEF Custody
  <1>6. QED
    BY <1>2, <1>5, TaskMoves

\* A statement is answered: committed or refused.
LEMMA Submits ==
  ASSUME SealInv, NEW n \in Natives, submit_seal(n)
  PROVE  SealInv'
  <1>1. PICK t : t = task[n]
    OBVIOUS
  <1>2. /\ t # NoTask /\ t.at = "submit" /\ Custody(n, t) /\ task' = [task EXCEPT ![n] = NoTask]
        /\ UNCHANGED <<native, copies, grantRows, orphans, late>>
        /\ (CommitHolds(t) /\ SealCommits(t)) \/ UNCHANGED <<seals, receiptOf>>
    BY <1>1 DEF SealInv, TasksHeld, submit_seal, Unlocks
  <1>3. CASE UNCHANGED <<seals, receiptOf>>
    BY <1>2, <1>3, TaskMoves
  <1>4. CASE CommitHolds(t) /\ SealCommits(t)
    <2>1. /\ DOMAIN task' = Natives /\ task'[n] = NoTask
          /\ \A m \in Natives : task'[m] \in {task[m], NoTask}
      BY <1>2, SealFacts
    <2>2. Submitted(t) /\ (t.kind = "seal" => t.identity.native = n)
      BY <1>2 DEF Custody
    <2>3. \/ t.kind # "seal"
          \/ /\ Custody(t.identity.native, t) /\ t.identity.native \in Natives
             /\ task'[t.identity.native] = NoTask
      BY <1>2, <2>1, <2>2
    <2>4. QED
      BY <1>2, <1>4, <2>1, <2>2, <2>3, HistoryMoves
  <1>5. QED
    BY <1>2, <1>3, <1>4

\* Generations go, of a store no live seal is of.
LEMMA Deletes ==
  ASSUME SealInv, NEW n \in Natives, prune_deletes(n)
  PROVE  SealInv'
  <1>1. PICK t : t = task[n]
    OBVIOUS
  <1>2. /\ t # NoTask /\ t.at = "prune" /\ Custody(n, t) /\ task' = [task EXCEPT ![n] = NoTask]
        /\ UNCHANGED <<copies, seals, receiptOf, grantRows, orphans, late>>
    BY <1>1 DEF SealInv, TasksHeld, prune_deletes, Unlocks, Rest
  <1>3. PICK kept \in SUBSET native[n].gens : native' = [native EXCEPT ![n].gens = kept]
    BY DEF prune_deletes
  <1>4. native[n] \in NativeState /\ native \in [Natives -> NativeState]
    BY SealFacts
  <1>5. PICK s : s = [native[n] EXCEPT !.gens = kept]
    OBVIOUS
  <1>6. s \in NativeState /\ s.marker = native[n].marker
    BY <1>4, <1>5 DEF NativeState
  <1>7. native' = [native EXCEPT ![n] = s]
    BY <1>3, <1>5
  <1>8. \A i \in live(seals) \ late : i.native # n
    BY <1>2 DEF Custody
  <1>9. /\ native' \in [Natives -> NativeState]
        /\ \A m \in Natives : native[m].marker = "ours" => native'[m].marker = "ours"
        /\ \A m \in Natives : m = n \/ native'[m] = native[m]
    BY <1>4, <1>6, <1>7
  <1>10. DOMAIN task' = Natives /\ \A m \in Natives : task'[m] = IF m = n THEN NoTask ELSE task[m]
    BY <1>2, SealFacts
  <1>11. \A m \in Natives : \/ native[m].gens \subseteq native'[m].gens
                            \/ /\ task'[m] = NoTask
                               /\ \A i \in live(seals) \ late : i.native # m
    BY <1>8, <1>9, <1>10
  <1>12. \A m \in Natives : \A u : u = task'[m] => u \in {task[m], NoTask} \/ Custody(m, u)
    BY <1>10
  <1>13. QED
    BY <1>2, <1>9, <1>10, <1>11, <1>12, SealFacts, SealMoves

\* A process dies; the statement it was waiting for may still commit.
LEMMA CustodyLost ==
  ASSUME SealInv, NEW n \in Natives, ProcessDies(n)
  PROVE  SealInv'
  <1>1. /\ task' = [task EXCEPT ![n] = NoTask]
        /\ UNCHANGED <<copies, seals, receiptOf, grantRows, late>>
        /\ native' = [native EXCEPT ![n].up = FALSE, ![n].guard = FALSE]
    BY DEF ProcessDies, Unlocks
  <1>2. native[n] \in NativeState /\ native \in [Natives -> NativeState]
    BY SealFacts
  <1>3. PICK s : s = [native[n] EXCEPT !.up = FALSE, !.guard = FALSE]
    OBVIOUS
  <1>4. s \in NativeState /\ s.marker = native[n].marker /\ s.gens = native[n].gens
    BY <1>2, <1>3 DEF NativeState
  <1>5. native' = [native EXCEPT ![n] = s]
    BY <1>1, <1>2, <1>3 DEF NativeState
  <1>6. /\ native' \in [Natives -> NativeState]
        /\ \A m \in Natives : native'[m].marker = native[m].marker /\ native'[m].gens = native[m].gens
    BY <1>2, <1>4, <1>5
  <1>7. DOMAIN task' = Natives /\ \A m \in Natives : task'[m] = IF m = n THEN NoTask ELSE task[m]
    BY <1>1, SealFacts
  <1>8. \A m \in Natives : \A u : u = task'[m] => u \in {task[m], NoTask} \/ Custody(m, u)
    BY <1>7
  <1>9. \A t \in orphans' : Submitted(t)
    <2>1. PICK t : t = task[n]
      OBVIOUS
    <2>2. orphans' = IF t # NoTask /\ t.at = "submit" THEN orphans \union {t} ELSE orphans
      BY <2>1 DEF ProcessDies
    <2>3. t # NoTask /\ t.at = "submit" => Submitted(t)
      BY <2>1 DEF SealInv, TasksHeld, Custody
    <2>4. QED
      BY <2>2, <2>3, SealFacts
  <1>10. QED
    BY <1>1, <1>6, <1>7, <1>8, <1>9, SealFacts, SealMoves

\* The statement of a process that died commits.
LEMMA Orphaned ==
  ASSUME SealInv, NEW t \in orphans, OrphanCommits(t)
  PROVE  SealInv'
  <1>1. /\ CommitHolds(t) /\ SealCommits(t) /\ UNCHANGED <<native, task, copies, grantRows>>
        /\ orphans' \subseteq orphans /\ late \subseteq late'
        /\ t.kind # "seal" \/ t.identity \in late'
    BY DEF OrphanCommits
  <1>2. Submitted(t) /\ DOMAIN task' = Natives /\ \A m \in Natives : task'[m] \in {task[m], NoTask}
    BY <1>1, SealFacts
  <1>3. QED
    BY <1>1, <1>2, HistoryMoves

\* A row is inserted again.
LEMMA RowReinserted ==
  ASSUME SealInv, NEW k \in Later, RowInserted(k)
  PROVE  SealInv'
  <1>1. /\ UNCHANGED <<native, task, seals, receiptOf, grantRows, orphans, late>>
        /\ copies' = [copies EXCEPT ![k] = copies[k] + 1]
    BY DEF RowInserted
  <1>2. k \in RowKeys /\ copies \in [RowKeys -> Nat] /\ copies[k] \in Nat
    BY SealFacts, SealAssumption
  <1>3. copies' \in [RowKeys -> Nat]
    BY <1>1, <1>2
  <1>4. ASSUME NEW m \in RowKeys PROVE copies'[m] >= copies[m]
    <2>1. copies[m] \in Nat /\ (copies'[m] = copies[m] \/ copies'[m] = copies[m] + 1)
      BY <1>1, <1>2
    <2>2. QED
      BY <2>1
  <1>5. QED
    BY <1>1, <1>3, <1>4, SealFacts, SealMoves

\* Somebody writes the access or the binding history.
LEMMA AuthorityGrows ==
  ASSUME SealInv, AuthorityMoves
  PROVE  SealInv'
  <1>1. /\ UNCHANGED <<native, task, copies, seals, receiptOf, orphans, late>>
        /\ grantRows' = grantRows + 1
    BY DEF AuthorityMoves
  <1>2. grantRows' \in Nat
    BY <1>1, SealFacts
  <1>3. QED
    BY <1>1, <1>2, SealFacts, SealMoves

\* Before anything is sealed.
LEMMA SealStarts == SealInit => SealInv
  <1>1. SUFFICES ASSUME SealInit PROVE SealInv
    OBVIOUS
  <1>2. seals = <<>> /\ SealedIn(seals) = {} /\ live(seals) = {} /\ DOMAIN seals = {} /\ Len(seals) = 0
    BY <1>1 DEF SealInit, SealedIn, live
  <1>3. seals \in Seq(SealEvent) /\ IsFiniteSet(live(seals)) /\ Cardinality(live(seals)) = 0
    BY <1>2, FS_EmptySet
  <1>4. history_read(seals)
    <2>1. Len(seals) <= MAX_HISTORY /\ Cardinality(live(seals)) <= MAX_LIVE_SEALS
      BY <1>2, <1>3, SealAssumption
    <2>2. QED
      BY <1>2, <2>1 DEF history_read
  <1>5. native \in [Natives -> NativeState]
    <2>1. {1} \in SUBSET Nat /\ 1 \in Nat
      OBVIOUS
    <2>2. [gens |-> {1}, head |-> 1, up |-> TRUE, guard |-> FALSE, marker |-> "absent"] \in NativeState
      BY <2>1 DEF NativeState
    <2>3. QED
      BY <1>1, <2>2 DEF SealInit
  <1>6. TasksHeld
    BY <1>1 DEF SealInit, TasksHeld
  <1>7. copies \in [RowKeys -> Nat] /\ grantRows \in Nat /\ orphans = {} /\ DOMAIN receiptOf = SealOps
    BY <1>1 DEF SealInit
  <1>8. SealsRetained
    <2>1. \A o \in SealOps : receiptOf[o] = NoReceipt
      BY <1>1 DEF SealInit
    <2>2. QED
      BY <1>2, <1>4, <2>1 DEF SealsRetained
  <1>9. QED
    BY <1>2, <1>3, <1>5, <1>6, <1>7, <1>8 DEF SealInv

\* No step breaks it.
LEMMA SealStep == SealInv /\ [SealNext]_sealVars => SealInv'
  <1>1. SUFFICES ASSUME SealInv, [SealNext]_sealVars PROVE SealInv'
    OBVIOUS
  <1>2. CASE UNCHANGED sealVars
    <2>1. UNCHANGED <<native, task, copies, seals, receiptOf, grantRows, orphans, late>>
      BY <1>2 DEF sealVars
    <2>2. QED
      BY <1>1, <2>1, SealFacts, SealMoves
  <1>3. ASSUME NEW n \in Natives,
               \/ checkpoint_native(n) \/ capture(n) \/ open_seals(n) \/ DiesInOpen(n)
               \/ \E p \in Publishes, gen \in 1..native[n].head : seal_stage(n, p, gen)
               \/ seal_admit(n)
               \/ \E op \in Releases, i \in SealedIn(seals) : release_seal(n, op, i)
               \/ submit_seal(n) \/ prune_begins(n) \/ prune_deletes(n) \/ ProcessDies(n) \/ open_native(n)
        PROVE  SealInv'
    BY <1>1, <1>3, NativeMoves, Stages, Admits, Releasing, Submits, Pruning, Deletes, CustodyLost
  <1>4. CASE \E t \in orphans : OrphanCommits(t)
    BY <1>1, <1>4, Orphaned
  <1>5. CASE \E k \in Later : RowInserted(k)
    BY <1>1, <1>5, RowReinserted
  <1>6. CASE AuthorityMoves
    BY <1>1, <1>6, AuthorityGrows
  <1>7. QED
    BY <1>1, <1>2, <1>3, <1>4, <1>5, <1>6 DEF SealNext

\* The history of seals stays readable; a live seal keeps its rows and its native
\* generations through prunes, deaths and reopenings; a receipt names a seal of it
\* (store.rs: seal, release, check_prune; maintenance.rs: prune).
THEOREM SealsAreRetained == SealSpec => []SealsRetained
  <1>1. SealInv => SealsRetained
    BY DEF SealInv
  <1>2. QED
    BY <1>1, SealStarts, SealStep, PTL DEF SealSpec

-----------------------------------------------------------------------------
(* The conversion of a site and the reconciliation of a plan.              *)

\* The rows a statement joins, as its key names them.
EndsOf(key) == IF key[1] = 0 THEN {} ELSE {key[2], key[4]}

\* A step of a plan: its key says what it joins, which are nodes of every plan, in
\* one scope.
StepSound(s, keys, doc) ==
    /\ s = [key |-> s.key, ends |-> s.ends, body |-> doc]
    /\ s.ends = EndsOf(s.key)
    /\ s.ends = {} \/ \E scope, a, b : /\ s.ends = {a, b} /\ a[2] = scope /\ b[2] = scope
                                      /\ a \in keys /\ b \in keys
                                      /\ a[1] = 0 /\ b[1] = 0 /\ s.key[1] = 1

\* An edge whose ends are nodes is a sound step.
LEMMA EdgeSound ==
  ASSUME NEW scope, NEW from, NEW to, NEW role, NEW iri, NEW doc, NEW keys,
         <<0, scope, "installed", from>> \in keys, <<0, scope, role, to>> \in keys
  PROVE  StepSound(edge(scope, from, to, role, iri, doc), keys, doc)
  <1>1. PICK a, b : a = <<0, scope, "installed", from>> /\ b = <<0, scope, role, to>>
    OBVIOUS
  <1>2. PICK k : k = <<1, a, iri, b>>
    OBVIOUS
  <1>3. k[1] = 1 /\ k[2] = a /\ k[4] = b
    BY <1>2
  <1>4. a[1] = 0 /\ a[2] = scope /\ b[1] = 0 /\ b[2] = scope
    BY <1>1
  <1>5. PICK s : s = edge(scope, from, to, role, iri, doc)
    OBVIOUS
  <1>6. s = [key |-> k, ends |-> {a, b}, body |-> doc]
    BY <1>1, <1>2, <1>5 DEF edge
  <1>7. s.key = k /\ s.ends = {a, b}
    BY <1>6
  <1>8. EndsOf(k) = {a, b}
    BY <1>3 DEF EndsOf
  <1>9. a \in keys /\ b \in keys
    BY <1>1
  <1>10. StepSound(s, keys, doc)
    BY <1>3, <1>4, <1>6, <1>7, <1>8, <1>9 DEF StepSound
  <1>11. QED
    BY <1>5, <1>10

\* A node is a sound step.
LEMMA NodeSound ==
  ASSUME NEW scope, NEW role, NEW id, NEW doc, NEW keys
  PROVE  StepSound(node(scope, role, id, doc), keys, doc)
  <1>1. PICK k : k = <<0, scope, role, id>>
    OBVIOUS
  <1>2. PICK s : s = node(scope, role, id, doc)
    OBVIOUS
  <1>3. s = [key |-> k, ends |-> {}, body |-> doc]
    BY <1>1, <1>2 DEF node
  <1>4. k[1] = 0
    BY <1>1
  <1>5. s.key = k /\ s.ends = {} /\ EndsOf(k) = {}
    BY <1>3, <1>4 DEF EndsOf
  <1>6. StepSound(s, keys, doc)
    BY <1>3, <1>5 DEF StepSound
  <1>7. QED
    BY <1>2, <1>6

\* The nodes of a plan are the same whatever its relations.
LEMMA NodeKeys ==
  ASSUME NEW doc
  PROVE  /\ \A id \in Equipment : <<0, scope_of(id), "installed", id>> \in {n.key : n \in Nodes(doc)}
         /\ \A s \in {"scope-a", "scope-b"} : <<0, s, "location", "">> \in {n.key : n \in Nodes(doc)}
         /\ <<0, scope_of(SharedSensor), "property", SharedSensor>> \in {n.key : n \in Nodes(doc)}
  <1>1. ASSUME NEW scope, NEW role, NEW id
        PROVE  node(scope, role, id, doc).key = <<0, scope, role, id>>
    BY DEF node
  <1>2. ASSUME NEW id \in Equipment
        PROVE  <<0, scope_of(id), "installed", id>> \in {n.key : n \in Nodes(doc)}
    <2>1. PICK n : n = node(scope_of(id), "installed", id, doc)
      OBVIOUS
    <2>2. n \in Nodes(doc)
      BY <2>1 DEF Nodes
    <2>3. n.key = <<0, scope_of(id), "installed", id>>
      BY <1>1, <2>1
    <2>4. QED
      BY <2>2, <2>3
  <1>3. ASSUME NEW s \in {"scope-a", "scope-b"}
        PROVE  <<0, s, "location", "">> \in {n.key : n \in Nodes(doc)}
    <2>1. PICK n : n = node(s, "location", "", doc)
      OBVIOUS
    <2>2. n \in Nodes(doc)
      BY <2>1 DEF Nodes
    <2>3. n.key = <<0, s, "location", "">>
      BY <1>1, <2>1
    <2>4. QED
      BY <2>2, <2>3
  <1>4. <<0, scope_of(SharedSensor), "property", SharedSensor>> \in {n.key : n \in Nodes(doc)}
    <2>1. PICK n : n = node(scope_of(SharedSensor), "property", SharedSensor, doc)
      OBVIOUS
    <2>2. n \in Nodes(doc)
      BY <2>1 DEF Nodes
    <2>3. n.key = <<0, scope_of(SharedSensor), "property", SharedSensor>>
      BY <1>1, <2>1
    <2>4. QED
      BY <2>2, <2>3
  <1>5. QED
    BY <1>2, <1>3, <1>4

\* A relation that can be written is a sound step.
LEMMA RelationSound ==
  ASSUME NEW r, NEW iri, NEW doc, writable(r, iri)
  PROVE  StepSound(relation_edge(r, iri, doc), {n.key : n \in Nodes(doc)}, doc)
  <1> DEFINE keys == {n.key : n \in Nodes(doc)}
  <1>1. /\ \A id \in Equipment : <<0, scope_of(id), "installed", id>> \in keys
        /\ \A s \in {"scope-a", "scope-b"} : <<0, s, "location", "">> \in keys
    BY NodeKeys
  <1> HIDE DEF keys
  <1>2. CASE r \in LocatedIn
    <2>1. r.kind = "located-in" /\ r.a \in Equipment /\ r.b \in {"scope-a", "scope-b"}
      BY <1>2 DEF LocatedIn, Equipment
    <2>2. scope_of(r.a) = r.b /\ iri # "hasPoint"
      BY <2>1 DEF writable
    <2>3. relation_edge(r, iri, doc) = edge(r.b, r.a, "", "location", iri, doc)
      BY <2>1, <2>2 DEF relation_edge
    <2>4. <<0, r.b, "installed", r.a>> \in keys
      BY <1>1, <2>1, <2>2
    <2>5. <<0, r.b, "location", "">> \in keys
      BY <1>1, <2>1
    <2>6. StepSound(edge(r.b, r.a, "", "location", iri, doc), keys, doc)
      BY <2>4, <2>5, EdgeSound
    <2>7. QED
      BY <2>3, <2>6 DEF keys
  <1>3. CASE r \in ServedBy
    <2>1. r.kind = "served-by" /\ r.a \in Equipment /\ r.b \in Equipment
      BY <1>3 DEF ServedBy, Equipment
    <2>2. scope_of(r.b) = scope_of(r.a) /\ iri # "hasPoint"
      BY <2>1 DEF writable, same_scope
    <2>3. relation_edge(r, iri, doc) = edge(scope_of(r.b), r.b, r.a, "installed", iri, doc)
      BY <2>1, <2>2 DEF relation_edge
    <2>4. <<0, scope_of(r.b), "installed", r.b>> \in keys /\ <<0, scope_of(r.b), "installed", r.a>> \in keys
      BY <1>1, <2>1, <2>2
    <2>5. StepSound(edge(scope_of(r.b), r.b, r.a, "installed", iri, doc), keys, doc)
      BY <2>4, EdgeSound
    <2>6. QED
      BY <2>3, <2>5 DEF keys
  <1>4. CASE r \in ObservedBy
    <2>1. r.kind = "observed-by" /\ r.a \in Equipment /\ r.b \in Equipment
      BY <1>4 DEF ObservedBy, Equipment, SharedSensor
    <2>2. scope_of(r.b) = scope_of(r.a)
      BY <2>1 DEF writable, same_scope
    <2>3. /\ <<0, scope_of(r.a), "installed", r.a>> \in keys
          /\ <<0, scope_of(r.a), "installed", r.b>> \in keys
      BY <1>1, <2>1, <2>2
    <2>4. CASE iri = "hasPoint"
      <3>1. relation_edge(r, iri, doc) = edge(scope_of(r.a), r.a, r.b, "installed", iri, doc)
        BY <2>1, <2>4 DEF relation_edge
      <3>2. StepSound(edge(scope_of(r.a), r.a, r.b, "installed", iri, doc), keys, doc)
        BY <2>3, EdgeSound
      <3>3. QED
        BY <3>1, <3>2 DEF keys
    <2>5. CASE iri # "hasPoint"
      <3>1. relation_edge(r, iri, doc) = edge(scope_of(r.a), r.b, r.a, "installed", iri, doc)
        BY <2>1, <2>5 DEF relation_edge
      <3>2. StepSound(edge(scope_of(r.a), r.b, r.a, "installed", iri, doc), keys, doc)
        BY <2>3, EdgeSound
      <3>3. QED
        BY <3>1, <3>2 DEF keys
    <2>6. QED
      BY <2>4, <2>5
  <1>5. QED
    BY <1>2, <1>3, <1>4 DEF writable, Relationships

\* Every step of a plan is sound.
LEMMA PlanSound ==
  ASSUME NEW p, NEW doc, plannable(p)
  PROVE  \A s \in tiny_site(p, doc) : StepSound(s, {n.key : n \in Nodes(doc)}, doc)
  <1> DEFINE keys == {n.key : n \in Nodes(doc)}
  <1>1. ASSUME NEW s \in Nodes(doc) PROVE StepSound(s, keys, doc)
    <2>1. PICK scope, role, id : s = node(scope, role, id, doc)
      BY <1>1 DEF Nodes
    <2>2. QED
      BY <2>1, NodeSound
  <1>2. ASSUME NEW q \in p.relations PROVE StepSound(relation_edge(q.relation, q.iri, doc), keys, doc)
    BY <1>2, RelationSound DEF plannable
  <1>3. StepSound(observes_edge(doc), keys, doc)
    <2>1. /\ <<0, scope_of(SharedSensor), "installed", SharedSensor>> \in keys
          /\ <<0, scope_of(SharedSensor), "property", SharedSensor>> \in keys
      BY NodeKeys DEF SharedSensor, Equipment
    <2>2. QED
      BY <2>1, EdgeSound DEF observes_edge
  <1> HIDE DEF keys
  <1>4. QED
    BY <1>1, <1>2, <1>3 DEF tiny_site, keys

-----------------------------------------------------------------------------
\* What a sound step's key determines: two steps of one report and one key are the
\* same step.
LEMMA KeyNames ==
  ASSUME NEW s, NEW t, NEW keys, NEW other, NEW doc, NEW again,
         StepSound(s, keys, doc), StepSound(t, other, again), s.key = t.key
  PROVE  s.ends = t.ends /\ (doc = again => s = t)
  <1>1. s = [key |-> s.key, ends |-> s.ends, body |-> doc] /\ s.ends = EndsOf(s.key)
    BY DEF StepSound
  <1>2. t = [key |-> t.key, ends |-> t.ends, body |-> again] /\ t.ends = EndsOf(t.key)
    BY DEF StepSound
  <1>3. s.ends = t.ends
    BY <1>1, <1>2
  <1>4. QED
    BY <1>1, <1>2, <1>3

\* The binding set is the conversion of its input, which is the site accepted last.
ConversionInv ==
    /\ bound.input = taken /\ bound.bindings = convert(taken).bindings
    /\ convert(taken).result = "ok"

\* A plan that is reconciled: what is missing of it is not in the graph, and the rest
\* is there exactly.
Attempted(x, g) ==
    /\ x = [steps |-> x.steps, missing |-> x.missing]
    /\ x # NoAttempt => \E p \in Plans, r \in Reports : plannable(p) /\ x.steps = tiny_site(p, r)
    /\ x.missing \subseteq x.steps
    /\ \A s \in x.missing : g[s.key] = <<>>
    /\ \A s \in x.steps \ x.missing : g[s.key] = <<s.body>>

\* A graph of nothing but single rows, whose edges have their ends.
GraphSound(g) ==
    /\ g \in [StepKeys -> Seq(Reports)]
    /\ \A k \in StepKeys : Len(g[k]) <= 1
    /\ \A s \in AllSteps : g[s.key] # <<>> => \A k \in s.ends : g[k] # <<>>

\* Settled plans are in the graph.
SettledIn(p, g) ==
    \A steps \in p : \A s \in steps : s \in AllSteps /\ g[s.key] = <<s.body>>

SemanticsInv ==
    /\ ConversionInv
    /\ GraphSound(graph) /\ Attempted(attempt, graph) /\ SettledIn(settled, graph)

\* A step of any plan: it is sound, of a report, and its key and ends are keys.
LEMMA StepsKnown ==
  ASSUME NEW s \in AllSteps
  PROVE  /\ s.key \in StepKeys /\ s.ends \subseteq StepKeys
         /\ \E doc \in Reports : StepSound(s, StepKeys, doc) /\ s.body = doc
         /\ s.key \notin s.ends
         /\ Cardinality({k[2] : k \in s.ends}) <= 1
  <1>1. PICK p \in Plans, doc \in Reports : plannable(p) /\ s \in tiny_site(p, doc)
    BY DEF AllSteps
  <1>2. PICK keys : keys = {n.key : n \in Nodes(doc)}
    OBVIOUS
  <1>3. keys \subseteq StepKeys
    <2>1. Nodes(doc) \subseteq tiny_site(p, doc)
      BY DEF tiny_site
    <2>2. tiny_site(p, doc) \subseteq AllSteps
      BY <1>1 DEF AllSteps
    <2>3. QED
      BY <1>2, <2>1, <2>2 DEF StepKeys
  <1>4. StepSound(s, keys, doc)
    BY <1>1, <1>2, PlanSound
  <1>5. s.key \in StepKeys
    BY DEF StepKeys
  <1>6. /\ s = [key |-> s.key, ends |-> s.ends, body |-> doc]
        /\ s.ends = EndsOf(s.key)
    BY <1>4 DEF StepSound
  <1>7. s.body = doc
    BY <1>6
  <1>8. CASE s.ends = {}
    <2>1. {k[2] : k \in s.ends} = {}
      BY <1>8
    <2>2. Cardinality({k[2] : k \in s.ends}) = 0
      BY <2>1, FS_EmptySet
    <2>3. StepSound(s, StepKeys, doc)
      BY <1>6, <1>8 DEF StepSound
    <2>4. QED
      BY <1>5, <1>7, <1>8, <2>2, <2>3
  <1>9. CASE s.ends # {}
    <2>1. PICK scope, a, b : /\ s.ends = {a, b} /\ a[2] = scope /\ b[2] = scope
                             /\ a \in keys /\ b \in keys
                             /\ a[1] = 0 /\ b[1] = 0 /\ s.key[1] = 1
      BY <1>4, <1>9 DEF StepSound
    <2>2. {k[2] : k \in s.ends} = {scope}
      BY <2>1
    <2>3. Cardinality({k[2] : k \in s.ends}) = 1
      BY <2>2, FS_Singleton
    <2>4. s.ends \subseteq StepKeys /\ s.key \notin s.ends
      BY <1>3, <2>1
    <2>5. StepSound(s, StepKeys, doc)
      BY <1>3, <1>6, <2>1 DEF StepSound
    <2>6. QED
      BY <1>5, <1>7, <2>3, <2>4, <2>5
  <1>10. QED
    BY <1>8, <1>9

\* Steps of one key join the same rows.
LEMMA SameEnds ==
  ASSUME NEW s \in AllSteps, NEW t \in AllSteps, s.key = t.key
  PROVE  s.ends = t.ends
  <1>1. PICK r : StepSound(s, StepKeys, r)
    BY StepsKnown
  <1>2. PICK q : StepSound(t, StepKeys, q)
    BY StepsKnown
  <1>3. QED
    BY <1>1, <1>2, KeyNames

\* Within a plan, a key is one step.
LEMMA PlanKeys ==
  ASSUME NEW p, NEW doc, plannable(p), NEW s \in tiny_site(p, doc),
         NEW t \in tiny_site(p, doc), s.key = t.key
  PROVE  s = t
  <1>1. PICK keys : keys = {n.key : n \in Nodes(doc)}
    OBVIOUS
  <1>2. StepSound(s, keys, doc) /\ StepSound(t, keys, doc)
    BY <1>1, PlanSound
  <1>3. QED
    BY <1>2, KeyNames

\* The steps of a plan are steps.
LEMMA PlanSteps ==
  ASSUME NEW x, NEW g, Attempted(x, g)
  PROVE  x.steps \subseteq AllSteps /\ x.missing \subseteq x.steps
  <1>1. CASE x = NoAttempt
    BY <1>1 DEF NoAttempt, Attempted
  <1>2. CASE x # NoAttempt
    BY <1>2 DEF Attempted, AllSteps
  <1>3. QED
    BY <1>1, <1>2

\* An insert adds one row of its own to a graph that has none under that key.
LEMMA InsertEffect ==
  ASSUME GraphSound(graph), NEW s \in AllSteps, graph[s.key] = <<>>
  PROVE  /\ \/ Inserted(s) = graph
            \/ (\A k \in s.ends : graph[k] # <<>>) /\ Inserted(s)[s.key] = <<s.body>>
         /\ Inserted(s) \in [StepKeys -> Seq(Reports)]
         /\ \A k \in StepKeys : k # s.key => Inserted(s)[k] = graph[k]
  <1>1. s.key \in StepKeys /\ s.body \in Reports
    BY StepsKnown
  <1>2. graph \in [StepKeys -> Seq(Reports)]
    BY DEF GraphSound
  <1>3. CASE \A k \in s.ends : graph[k] # <<>>
    <2>1. PICK m : m = Append(graph[s.key], s.body)
      OBVIOUS
    <2>2. m = <<s.body>> /\ m \in Seq(Reports)
      BY <1>1, <2>1
    <2>3. Inserted(s) = [graph EXCEPT ![s.key] = m]
      BY <1>3, <2>1 DEF Inserted
    <2>4. QED
      BY <1>1, <1>2, <1>3, <2>2, <2>3
  <1>4. CASE ~ \A k \in s.ends : graph[k] # <<>>
    <2>1. Inserted(s) = graph
      BY <1>4 DEF Inserted
    <2>2. QED
      BY <1>2, <2>1
  <1>5. QED
    BY <1>3, <1>4

\* So it keeps the graph sound and what was settled in it.
LEMMA InsertKeeps ==
  ASSUME GraphSound(graph), SettledIn(settled, graph), NEW s \in AllSteps, graph[s.key] = <<>>
  PROVE  GraphSound(Inserted(s)) /\ SettledIn(settled, Inserted(s))
  <1>1. PICK h : h = Inserted(s)
    OBVIOUS
  <1>2. s.key \in StepKeys
    BY StepsKnown
  <1>3. /\ \/ h = graph
           \/ (\A k \in s.ends : graph[k] # <<>>) /\ h[s.key] = <<s.body>>
        /\ h \in [StepKeys -> Seq(Reports)]
        /\ \A k \in StepKeys : k # s.key => h[k] = graph[k]
    BY <1>1, InsertEffect
  <1>4. ASSUME NEW k \in StepKeys, graph[k] # <<>> PROVE h[k] = graph[k]
    BY <1>3, <1>4
  <1>5. \A k \in StepKeys : Len(h[k]) <= 1
    <2>1. \A k \in StepKeys : Len(graph[k]) <= 1
      BY DEF GraphSound
    <2>2. Len(<<s.body>>) = 1
      OBVIOUS
    <2>3. ASSUME NEW k \in StepKeys PROVE Len(h[k]) <= 1
      <3>1. CASE h[k] = graph[k]
        BY <2>1, <3>1
      <3>2. CASE h[k] = <<s.body>>
        BY <2>2, <3>2
      <3>3. QED
        BY <1>2, <1>3, <3>1, <3>2
    <2>4. QED
      BY <2>3
  <1>6. ASSUME NEW t \in AllSteps, h[t.key] # <<>>, NEW k \in t.ends PROVE h[k] # <<>>
    <2>1. t.key \in StepKeys /\ k \in StepKeys
      BY <1>6, StepsKnown
    <2>2. CASE graph[t.key] # <<>>
      <3>1. graph[k] # <<>>
        BY <1>6, <2>2 DEF GraphSound
      <3>2. QED
        BY <1>4, <2>1, <3>1
    <2>3. CASE graph[t.key] = <<>>
      <3>1. t.key = s.key /\ h # graph
        BY <1>3, <1>6, <2>1, <2>3
      <3>2. t.ends = s.ends
        BY <3>1, SameEnds
      <3>3. graph[k] # <<>>
        BY <1>3, <1>6, <3>1, <3>2
      <3>4. QED
        BY <1>4, <2>1, <3>3
    <2>4. QED
      BY <2>2, <2>3
  <1>7. ASSUME NEW steps \in settled, NEW t \in steps PROVE t \in AllSteps /\ h[t.key] = <<t.body>>
    <2>1. t \in AllSteps /\ graph[t.key] = <<t.body>>
      BY <1>7 DEF SettledIn
    <2>2. t.key \in StepKeys /\ <<t.body>> # <<>>
      BY <2>1, StepsKnown
    <2>3. QED
      BY <1>4, <2>1, <2>2
  <1>8. GraphSound(h)
    BY <1>3, <1>5, <1>6 DEF GraphSound
  <1>9. SettledIn(settled, h)
    BY <1>7 DEF SettledIn
  <1>10. QED
    BY <1>1, <1>8, <1>9

\* Steps that are not the one inserted are as they were.
LEMMA InsertOthers ==
  ASSUME GraphSound(graph), Attempted(attempt, graph), NEW s \in attempt.missing
  PROVE  /\ s \in AllSteps /\ graph[s.key] = <<>>
         /\ \A t \in attempt.missing \ {s} : Inserted(s)[t.key] = <<>>
         /\ \A t \in attempt.steps \ attempt.missing : Inserted(s)[t.key] = <<t.body>>
  <1>1. s \in AllSteps /\ graph[s.key] = <<>> /\ s \in attempt.steps /\ attempt # NoAttempt
    BY PlanSteps DEF Attempted, NoAttempt
  <1>2. PICK p \in Plans, r \in Reports : plannable(p) /\ attempt.steps = tiny_site(p, r)
    BY <1>1 DEF Attempted
  <1>3. ASSUME NEW t \in attempt.steps, t # s PROVE Inserted(s)[t.key] = graph[t.key]
    <2>1. t.key # s.key
      BY <1>1, <1>2, <1>3, PlanKeys
    <2>2. t.key \in StepKeys
      BY <1>3, PlanSteps, StepsKnown
    <2>3. QED
      BY <1>1, <2>1, <2>2, InsertEffect
  <1>4. ASSUME NEW t \in attempt.missing \ {s} PROVE Inserted(s)[t.key] = <<>>
    BY <1>3, <1>4 DEF Attempted
  <1>5. ASSUME NEW t \in attempt.steps \ attempt.missing PROVE Inserted(s)[t.key] = <<t.body>>
    BY <1>3, <1>5 DEF Attempted
  <1>6. QED
    BY <1>1, <1>4, <1>5

\* Nothing is attempted, or nothing any more.
LEMMA NothingAttempted ==
  ASSUME NEW g
  PROVE  Attempted(NoAttempt, g)
BY DEF Attempted, NoAttempt

\* An insert, confirmed or not.
LEMMA InsertRowStep ==
  ASSUME SemanticsInv, NEW s \in attempt.missing, insert_row(s)
  PROVE  SemanticsInv'
  <1>1. GraphSound(graph) /\ Attempted(attempt, graph) /\ SettledIn(settled, graph) /\ ConversionInv
    BY DEF SemanticsInv
  <1>2. graph' = Inserted(s) /\ UNCHANGED conversionVars
    BY DEF insert_row
  <1>3. /\ s \in AllSteps /\ graph[s.key] = <<>>
        /\ \A t \in attempt.missing \ {s} : graph'[t.key] = <<>>
        /\ \A t \in attempt.steps \ attempt.missing : graph'[t.key] = <<t.body>>
    BY <1>1, <1>2, InsertOthers
  <1>4. GraphSound(graph') /\ SettledIn(settled, graph')
    BY <1>1, <1>2, <1>3, InsertKeeps
  <1>5. ConversionInv'
    BY <1>1, <1>2 DEF ConversionInv, conversionVars
  <1>6. CASE graph'[s.key] # <<s.body>>
    <2>1. attempt' = NoAttempt /\ settled' = settled
      BY <1>6 DEF insert_row
    <2>2. Attempted(NoAttempt, graph')
      BY NothingAttempted
    <2>3. QED
      BY <1>4, <1>5, <2>1, <2>2 DEF SemanticsInv
  <1>7. CASE graph'[s.key] = <<s.body>>
    <2>1. \A t \in attempt.steps \ (attempt.missing \ {s}) : graph'[t.key] = <<t.body>>
      BY <1>3, <1>7
    <2>2. CASE attempt.missing = {s}
      <3>1. attempt' = NoAttempt /\ settled' = {attempt.steps} \cup settled
        BY <1>7, <2>2 DEF insert_row
      <3>2. \A t \in attempt.steps : t \in AllSteps /\ graph'[t.key] = <<t.body>>
        BY <1>1, <2>1, <2>2, PlanSteps
      <3>3. SettledIn({attempt.steps} \cup settled, graph')
        BY <1>4, <3>2 DEF SettledIn
      <3>4. Attempted(NoAttempt, graph')
        BY NothingAttempted
      <3>5. QED
        BY <1>4, <1>5, <3>1, <3>3, <3>4 DEF SemanticsInv
    <2>3. CASE attempt.missing # {s}
      <3>1. attempt' = [attempt EXCEPT !.missing = @ \ {s}] /\ settled' = settled
        BY <1>7, <2>3 DEF insert_row
      <3>2. attempt = [steps |-> attempt.steps, missing |-> attempt.missing]
        BY <1>1 DEF Attempted
      <3>3. PICK x : x = [steps |-> attempt.steps, missing |-> attempt.missing \ {s}]
        OBVIOUS
      <3>4. attempt' = x
        BY <3>1, <3>2, <3>3
      <3>5. x.steps = attempt.steps /\ x.missing = attempt.missing \ {s}
        BY <3>3
      <3>6. attempt # NoAttempt /\ x.missing \subseteq x.steps
        BY <1>1, <3>5 DEF Attempted, NoAttempt
      <3>7. \E p \in Plans, r \in Reports : plannable(p) /\ x.steps = tiny_site(p, r)
        BY <1>1, <3>5, <3>6 DEF Attempted
      <3>8. Attempted(x, graph')
        BY <1>3, <2>1, <3>3, <3>5, <3>6, <3>7 DEF Attempted
      <3>9. QED
        BY <1>4, <1>5, <3>1, <3>4, <3>8 DEF SemanticsInv
    <2>4. QED
      BY <2>2, <2>3
  <1>8. QED
    BY <1>6, <1>7

\* An insert that fails, before or after its commit.
LEMMA FailedInsertStep ==
  ASSUME SemanticsInv, NEW s \in attempt.missing, insert_row_fails(s)
  PROVE  SemanticsInv'
  <1>1. GraphSound(graph) /\ Attempted(attempt, graph) /\ SettledIn(settled, graph) /\ ConversionInv
    BY DEF SemanticsInv
  <1>2. s \in AllSteps /\ graph[s.key] = <<>>
    BY <1>1, InsertOthers
  <1>3. /\ graph' = graph \/ graph' = Inserted(s)
        /\ attempt' = NoAttempt /\ settled' = settled /\ UNCHANGED conversionVars
    BY DEF insert_row_fails
  <1>4. GraphSound(graph') /\ SettledIn(settled, graph')
    BY <1>1, <1>2, <1>3, InsertKeeps
  <1>5. Attempted(NoAttempt, graph')
    BY NothingAttempted
  <1>6. ConversionInv'
    BY <1>1, <1>3 DEF ConversionInv, conversionVars
  <1>7. QED
    BY <1>3, <1>4, <1>5, <1>6 DEF SemanticsInv

\* The lookups of a reconciliation.
LEMMA ReconcileStep ==
  ASSUME SemanticsInv, NEW p \in Plans, NEW doc \in Reports, reconcile(p, doc)
  PROVE  SemanticsInv'
  <1>1. GraphSound(graph) /\ Attempted(attempt, graph) /\ SettledIn(settled, graph) /\ ConversionInv
    BY DEF SemanticsInv
  <1>2. graph' = graph /\ UNCHANGED conversionVars /\ plannable(p)
    BY DEF reconcile
  <1>3. ConversionInv'
    BY <1>1, <1>2 DEF ConversionInv, conversionVars
  <1>4. PICK steps : steps = tiny_site(p, doc)
    OBVIOUS
  <1>5. steps \subseteq AllSteps
    BY <1>2, <1>4 DEF AllSteps
  <1>6. CASE attempt' = attempt /\ settled' = settled
    BY <1>1, <1>2, <1>3, <1>6 DEF SemanticsInv
  <1>7. CASE missing(steps) = {} /\ exact(steps) /\ attempt' = attempt /\ settled' = {steps} \cup settled
    <2>1. SettledIn({steps} \cup settled, graph)
      BY <1>1, <1>5, <1>7 DEF SettledIn, exact
    <2>2. QED
      BY <1>1, <1>2, <1>3, <1>7, <2>1 DEF SemanticsInv
  <1>8. CASE exact(steps \ missing(steps)) /\ settled' = settled
             /\ attempt' = [steps |-> steps, missing |-> missing(steps)]
    <2>1. PICK x : x = [steps |-> steps, missing |-> missing(steps)]
      OBVIOUS
    <2>2. x.steps = steps /\ x.missing = missing(steps)
      BY <2>1
    <2>3. /\ x.missing \subseteq steps
          /\ \A s \in x.missing : graph[s.key] = <<>>
      BY <2>2 DEF missing
    <2>4. \A s \in steps \ x.missing : graph[s.key] = <<s.body>>
      BY <1>8, <2>2 DEF exact
    <2>5. Attempted(x, graph)
      BY <1>2, <1>4, <2>1, <2>2, <2>3, <2>4 DEF Attempted
    <2>6. QED
      BY <1>1, <1>2, <1>3, <1>8, <2>1, <2>5 DEF SemanticsInv
  <1>9. QED
    <2>1. \/ attempt' = attempt /\ settled' = settled
          \/ /\ exact(steps \ missing(steps))
             /\ IF missing(steps) = {}
                THEN settled' = settled \cup {steps} /\ attempt' = attempt
                ELSE attempt' = [steps |-> steps, missing |-> missing(steps)] /\ settled' = settled
      BY <1>4 DEF reconcile
    <2>2. missing(steps) = {} => steps \ missing(steps) = steps
      OBVIOUS
    <2>3. settled \cup {steps} = {steps} \cup settled
      OBVIOUS
    <2>4. QED
      BY <1>6, <1>7, <1>8, <2>1, <2>2, <2>3

\* A site is converted and applied, whole or not at all.
LEMMA ApplyStep ==
  ASSUME SemanticsInv, NEW site \in Sites, apply(site)
  PROVE  SemanticsInv'
  <1>1. UNCHANGED <<graph, attempt, settled>>
    BY DEF apply, graphVars
  <1>2. ConversionInv'
    <2>1. convert(site).result = "ok" /\ taken' = site
      BY DEF apply
    <2>2. CASE is_noop(site) /\ bound' = bound
      <3>1. bound.input = site /\ bound.bindings = convert(bound.input).bindings
        BY <2>2 DEF is_noop, SemanticsInv, ConversionInv
      <3>2. QED
        BY <2>1, <2>2, <3>1 DEF ConversionInv
    <2>3. CASE bound' = from_conversion(site, bound.revision + 1)
      <3>1. bound'.input = site /\ bound'.bindings = convert(site).bindings
        BY <2>3 DEF from_conversion
      <3>2. QED
        BY <2>1, <3>1 DEF ConversionInv
    <2>4. QED
      BY <2>2, <2>3 DEF apply
  <1>3. QED
    BY <1>1, <1>2 DEF SemanticsInv

\* What a conversion without a refusal yields.
LEMMA ConvertedWhole ==
  ASSUME NEW site, convert(site).result = "ok", NEW x \in convert(site).bindings,
         NEW y \in convert(site).bindings
  PROVE  /\ x.item.slot = y.item.slot => x = y
         /\ x.kind = x.item.slot.prefix
  <1> DEFINE bad == {i \in site : verdict(i) # "mapped"}
             claimed == {i.slot : i \in {k \in site : \E j \in site \ {k} : j.slot = k.slot}}
             made == {[item |-> i, kind |-> classify(i.class)] : i \in site}
             first == CHOOSE i \in bad : \A j \in bad : i.key <= j.key
  <1>1. convert(site) = IF bad # {} THEN [result |-> verdict(first), bindings |-> {}]
                        ELSE IF claimed # {} THEN [result |-> "collision", bindings |-> {}]
                        ELSE [result |-> "ok", bindings |-> made]
    BY DEF convert
  <1>2. verdict(first) # "ok"
    BY DEF verdict
  <1> HIDE DEF first
  <1>3. bad = {}
    <2>1. ASSUME bad # {} PROVE FALSE
      <3>1. convert(site).result = verdict(first)
        BY <1>1, <2>1
      <3>2. QED
        BY <1>2, <3>1
    <2>2. QED
      BY <2>1
  <1>4. claimed = {}
    <2>1. ASSUME claimed # {} PROVE FALSE
      <3>1. convert(site) = [result |-> "collision", bindings |-> {}]
        BY <1>1, <1>3, <2>1
      <3>2. convert(site).result = "collision"
        BY <3>1
      <3>3. QED
        BY <3>2
    <2>2. QED
      BY <2>1
  <1>5. convert(site).bindings = made
    BY <1>1, <1>3, <1>4
  <1>6. PICK i \in site : x = [item |-> i, kind |-> classify(i.class)]
    BY <1>5
  <1>7. PICK j \in site : y = [item |-> j, kind |-> classify(j.class)]
    BY <1>5
  <1>8. x.item = i /\ y.item = j /\ x.kind = classify(i.class)
    BY <1>6, <1>7
  <1>9. i.slot = j.slot => i = j
    BY <1>4
  <1>10. classify(i.class) = i.slot.prefix
    <2>1. verdict(i) = "mapped"
      BY <1>3
    <2>2. PICK kind : kind = classify(i.class)
      OBVIOUS
    <2>3. verdict(i) = IF kind \in {"out-of-scenario", "unknown"} THEN kind
                       ELSE IF kind # i.slot.prefix THEN "slot-mismatch"
                       ELSE IF unsupported_token(i) THEN "invalid-input"
                       ELSE "mapped"
      BY <2>2 DEF verdict
    <2>4. kind = i.slot.prefix
      BY <2>1, <2>3
    <2>5. QED
      BY <2>2, <2>4
  <1>11. QED
    BY <1>6, <1>7, <1>8, <1>9, <1>10

\* In the beginning a site was accepted and the graph is empty.
LEMMA SemanticsBegins == SemanticsInit => SemanticsInv
  <1> SUFFICES ASSUME SemanticsInit PROVE SemanticsInv
    OBVIOUS
  <1>1. ConversionInv
    <2>1. PICK site \in Sites : convert(site).result = "ok" /\ bound = from_conversion(site, 1) /\ taken = site
      BY DEF SemanticsInit
    <2>2. bound.input = site /\ bound.bindings = convert(site).bindings
      BY <2>1 DEF from_conversion
    <2>3. QED
      BY <2>1, <2>2 DEF ConversionInv
  <1>2. graph = [k \in StepKeys |-> <<>>] /\ attempt = NoAttempt /\ settled = {}
    BY DEF SemanticsInit
  <1>3. \A k \in StepKeys : graph[k] = <<>>
    BY <1>2
  <1>4. graph \in [StepKeys -> Seq(Reports)]
    BY <1>2
  <1>5. \A k \in StepKeys : Len(graph[k]) <= 1
    BY <1>3
  <1>6. \A s \in AllSteps : graph[s.key] = <<>>
    BY <1>3, StepsKnown
  <1>7. GraphSound(graph)
    BY <1>4, <1>5, <1>6 DEF GraphSound
  <1>8. Attempted(attempt, graph)
    BY <1>2, NothingAttempted
  <1>9. SettledIn(settled, graph)
    BY <1>2 DEF SettledIn
  <1>10. QED
    BY <1>1, <1>7, <1>8, <1>9 DEF SemanticsInv

\* Every step keeps the invariant.
LEMMA SemanticsStep == SemanticsInv /\ [SemanticsNext]_semanticsVars => SemanticsInv'
  <1> SUFFICES ASSUME SemanticsInv, [SemanticsNext]_semanticsVars PROVE SemanticsInv'
    OBVIOUS
  <1>1. CASE \E site \in Sites : apply(site)
    BY <1>1, ApplyStep
  <1>2. CASE \E p \in Plans, doc \in Reports : reconcile(p, doc)
    BY <1>2, ReconcileStep
  <1>3. CASE \E s \in attempt.missing : insert_row(s) \/ insert_row_fails(s)
    BY <1>3, InsertRowStep, FailedInsertStep
  <1>4. CASE UNCHANGED semanticsVars
    <2>1. UNCHANGED <<bound, taken, graph, attempt, settled>>
      BY <1>4 DEF semanticsVars, conversionVars, graphVars
    <2>2. QED
      BY <2>1 DEF SemanticsInv, ConversionInv
  <1>5. QED
    BY <1>1, <1>2, <1>3, <1>4 DEF SemanticsNext

\* The invariant says what the property says.
LEMMA SemanticsMeans == SemanticsInv => SemanticsSound
  <1> SUFFICES ASSUME SemanticsInv PROVE SemanticsSound
    OBVIOUS
  <1>1. ConversionInv /\ GraphSound(graph) /\ SettledIn(settled, graph)
    BY DEF SemanticsInv
  <1>2. bound.bindings = convert(taken).bindings /\ convert(taken).result = "ok"
    BY <1>1 DEF ConversionInv
  <1>3. BoundCurrent
    BY <1>2, ConvertedWhole DEF BoundCurrent
  <1>4. \A k \in StepKeys : Len(graph[k]) <= 1
    BY <1>1 DEF GraphSound
  <1>5. \A steps \in settled : \A s \in steps : graph[s.key] = <<s.body>>
    BY <1>1 DEF SettledIn
  <1>6. \A s \in AllSteps : graph[s.key] # <<>> =>
           (\A k \in s.ends : graph[k] # <<>>) /\ Cardinality({k[2] : k \in s.ends}) <= 1
    BY <1>1, StepsKnown DEF GraphSound
  <1>7. GraphExact
    BY <1>4, <1>5, <1>6 DEF GraphExact
  <1>8. QED
    BY <1>3, <1>7 DEF SemanticsSound

\* Through inputs that differ in labels only, failures in the middle of a plan and
\* plans that disagree, the binding set is the conversion of the site accepted last,
\* no key of the graph has two rows, and what was settled stays as it was
\* (apply, reconcile): SemanticsSound.
THEOREM ImportsAreWhole == SemanticsSpec => []SemanticsSound
  <1>1. SemanticsSpec => []SemanticsInv
    BY SemanticsBegins, SemanticsStep, PTL DEF SemanticsSpec
  <1>2. QED
    BY <1>1, SemanticsMeans, PTL

-----------------------------------------------------------------------------
(* The access log.                                                         *)

\* The rows of the admission log.
Capabilities == {"reviewer-1", "publisher-1"} \cup {q.cap : q \in Requests}
KeyIds == {"k1"} \cup Keys \cup {q.key : q \in Requests}
Materials == Secrets \cup Callers
Policies == {entry_only(Never), [scopes |-> {"a", "b"}, admin |-> 2, expires |-> Never]}
               \cup {q.policy : q \in Requests}
IssueRow == [kind : {"issue"}, cap : Capabilities, key : KeyIds, fp : Materials, gen : Nat \ {0},
             scope : {"a"} \cup {q.scope : q \in Requests}, ceiling : Nat,
             role : {"reviewer", "publisher"} \cup {q.role : q \in Requests}, policy : Policies]
RevokeRow == [kind : {"revoke"}, cap : Capabilities, key : KeyIds, gen : Nat \ {0}]
BootstrapRow == [kind : {"bootstrap"}]
LogRow == IssueRow \cup RevokeRow \cup BootstrapRow
Credentials == [cap : Capabilities, key : KeyIds, secret : Materials]
Stamp == [author : {NoBatch} \cup Credentials, at : Nat, before : Nat]

\* A row is the newest of its capability, a row is revoked.
NewestIn(l, r) == \A s \in Issues(l) : s.cap = r.cap => s.gen <= r.gen
RevokedIn(l, r) == \E v \in Revokes(l) : v.cap = r.cap /\ v.key = r.key

\* A log: of a capability no generation and no key is there twice, the generations are
\* one line with a newest, and all but that are revoked.
LogLine(l) ==
    /\ l \in Seq(LogRow)
    /\ \A r \in Issues(l) : decode_issue(r)
    /\ \A i, j \in DOMAIN l :
          i # j /\ l[i].kind = "issue" /\ l[j].kind = "issue" /\ l[i].cap = l[j].cap =>
              l[i].gen # l[j].gen /\ l[i].key # l[j].key
    /\ \A r \in Issues(l) : \E s \in Issues(l) : s.cap = r.cap /\ NewestIn(l, s)
    /\ \A r \in Issues(l) : NewestIn(l, r) \/ RevokedIn(l, r)
    /\ \A r \in Issues(l) : r.gen = 1 \/ \E s \in Issues(l) : s.cap = r.cap /\ s.gen = r.gen - 1

LogSound(l) == LogLine(l) /\ (l # <<>> => require_bootstrapped(l))

\* The author was entitled to a row on top of a log at a time.
Entitled(l, author, r, at) ==
    LET m == matched(l, author)
    IN  /\ checked(l, author, "any", FALSE, at) = "ok"
        /\ r.kind = "issue" /\ r.gen = 1 => authorize(m.policy, r)
        /\ r.kind = "issue" /\ r.gen > 1 =>
              /\ r.cap = m.cap /\ r.gen = m.gen + 1
              /\ r.policy = m.policy /\ r.scope = m.scope
              /\ r.ceiling = m.ceiling /\ r.role = m.role
        /\ r.kind = "revoke" => r.cap = m.cap /\ r.key = m.key

\* A batch that is committed on the log it read and before it expires leaves a sound
\* log, of rows that its author was entitled to.
BatchSound(b) ==
    /\ b.rows \in Seq(LogRow) /\ b.author \in {NoBatch} \cup Credentials
    /\ LogSound(b.guard \o b.rows)
    /\ b.author # NoBatch =>
          \A t \in Nat : t < b.expires => \A i \in DOMAIN b.rows : Entitled(b.guard, b.author, b.rows[i], t)

WrittenBy(l, w, i) ==
    /\ w[i] \in Stamp /\ w[i].before <= Len(l)
    /\ w[i].author # NoBatch => Entitled(SubSeq(l, 1, w[i].before), w[i].author, l[i], w[i].at)

\* A sound log, each row of which was written with authority.
LogWritten(l, w) ==
    /\ LogSound(l)
    /\ w \in Seq(Stamp) /\ Len(w) = Len(l)
    /\ \A i \in DOMAIN l : WrittenBy(l, w, i)

AccessInv ==
    /\ LogWritten(log, authored)
    /\ DOMAIN prepared = Callers
    /\ \A g \in Callers : prepared[g] # NoBatch => BatchSound(prepared[g])
    /\ held \subseteq Materials
    /\ wall \in Nat

-----------------------------------------------------------------------------
\* The rows of a log by their kind.
LEMMA RowKinds ==
  ASSUME NEW l \in Seq(LogRow)
  PROVE  /\ Issues(l) \subseteq IssueRow /\ Revokes(l) \subseteq RevokeRow
         /\ \A i \in DOMAIN l : l[i] \in LogRow
         /\ \A i \in DOMAIN l : l[i].kind = "issue" => l[i] \in Issues(l)
  <1>1. \A i \in DOMAIN l : l[i] \in LogRow
    OBVIOUS
  <1>2. \A r \in LogRow : (r.kind = "issue" => r \in IssueRow) /\ (r.kind = "revoke" => r \in RevokeRow)
    BY DEF LogRow, IssueRow, RevokeRow, BootstrapRow
  <1>3. QED
    BY <1>1, <1>2 DEF Issues, Revokes

\* What a log that is one row longer has in addition.
OneMore(g, l, r) ==
    /\ g \in Seq(LogRow) /\ Len(l) \in Nat /\ Len(g) = Len(l) + 1 /\ g # <<>>
    /\ DOMAIN l = 1..Len(l) /\ DOMAIN g = 1..(Len(l) + 1)
    /\ g[Len(l) + 1] = r /\ \A i \in 1..Len(l) : g[i] = l[i]
    /\ r.kind = "issue" => Issues(g) = {r} \cup Issues(l)
    /\ r.kind # "issue" => Issues(g) = Issues(l)
    /\ r.kind = "revoke" => Revokes(g) = {r} \cup Revokes(l)
    /\ r.kind # "revoke" => Revokes(g) = Revokes(l)

\* An appended row is one more.
LEMMA LogRowAdded ==
  ASSUME NEW l \in Seq(LogRow), NEW r \in LogRow
  PROVE  OneMore(Append(l, r), l, r)
  <1>0. PICK g : g = Append(l, r)
    OBVIOUS
  <1>1. /\ g \in Seq(LogRow) /\ Len(l) \in Nat /\ Len(g) = Len(l) + 1
        /\ DOMAIN l = 1..Len(l) /\ DOMAIN g = 1..(Len(l) + 1)
        /\ g[Len(l) + 1] = r /\ \A i \in 1..Len(l) : g[i] = l[i]
    BY <1>0
  <1>2. g # <<>>
    BY <1>1
  <1>3. ASSUME NEW k PROVE {g[i] : i \in {j \in DOMAIN g : g[j].kind = k}} =
            IF r.kind = k THEN {r} \cup {l[i] : i \in {j \in DOMAIN l : l[j].kind = k}}
            ELSE {l[i] : i \in {j \in DOMAIN l : l[j].kind = k}}
    <2>1. \A j \in DOMAIN g : j \in DOMAIN l \/ j = Len(l) + 1
      BY <1>1
    <2>2. \A j \in DOMAIN l : j \in DOMAIN g /\ g[j] = l[j]
      BY <1>1
    <2>3. Len(l) + 1 \in DOMAIN g
      BY <1>1
    <2>4. CASE r.kind = k
      BY <1>1, <2>1, <2>2, <2>3, <2>4
    <2>5. CASE r.kind # k
      BY <1>1, <2>1, <2>2, <2>3, <2>5
    <2>6. QED
      BY <2>4, <2>5
  <1>4. /\ r.kind = "issue" => Issues(g) = {r} \cup Issues(l)
        /\ r.kind # "issue" => Issues(g) = Issues(l)
    BY <1>3 DEF Issues
  <1>5. /\ r.kind = "revoke" => Revokes(g) = {r} \cup Revokes(l)
        /\ r.kind # "revoke" => Revokes(g) = Revokes(l)
    BY <1>3 DEF Revokes
  <1>6. OneMore(g, l, r)
    BY <1>1, <1>2, <1>4, <1>5 DEF OneMore
  <1>7. QED
    BY <1>0, <1>6

\* A revocation is added to a log.
LEMMA RevocationAdded ==
  ASSUME NEW l, LogLine(l), NEW r \in RevokeRow
  PROVE  LogLine(Append(l, r))
  <1>1. PICK g : g = Append(l, r)
    OBVIOUS
  <1>2. l \in Seq(LogRow) /\ r \in LogRow /\ r.kind = "revoke"
    BY DEF LogLine, LogRow, RevokeRow
  <1>3. /\ g \in Seq(LogRow) /\ Len(l) \in Nat
        /\ DOMAIN l = 1..Len(l) /\ DOMAIN g = 1..(Len(l) + 1)
        /\ g[Len(l) + 1] = r /\ \A i \in 1..Len(l) : g[i] = l[i]
        /\ Issues(g) = Issues(l) /\ Revokes(g) = {r} \cup Revokes(l)
    <2>1. OneMore(g, l, r)
      BY <1>1, <1>2, LogRowAdded
    <2>2. QED
      BY <1>2, <2>1 DEF OneMore
  <1>4. \A i \in DOMAIN g : g[i].kind = "issue" => i \in DOMAIN l /\ g[i] = l[i]
    BY <1>2, <1>3
  <1>5. \A i, j \in DOMAIN g :
          i # j /\ g[i].kind = "issue" /\ g[j].kind = "issue" /\ g[i].cap = g[j].cap =>
              g[i].gen # g[j].gen /\ g[i].key # g[j].key
    BY <1>4 DEF LogLine
  <1>6. \A s \in Issues(l) : (NewestIn(l, s) => NewestIn(g, s)) /\ (RevokedIn(l, s) => RevokedIn(g, s))
    BY <1>3 DEF NewestIn, RevokedIn
  <1>7. \A s \in Issues(g) : NewestIn(g, s) \/ RevokedIn(g, s)
    BY <1>3, <1>6 DEF LogLine
  <1>8. \A s \in Issues(g) : \E t \in Issues(g) : t.cap = s.cap /\ NewestIn(g, t)
    BY <1>3, <1>6 DEF LogLine
  <1>9. /\ \A s \in Issues(g) : decode_issue(s)
        /\ \A s \in Issues(g) : s.gen = 1 \/ \E t \in Issues(g) : t.cap = s.cap /\ t.gen = s.gen - 1
    BY <1>3 DEF LogLine
  <1>10. LogLine(g)
    BY <1>3, <1>5, <1>7, <1>8, <1>9 DEF LogLine
  <1>11. QED
    BY <1>1, <1>10

\* The marker of the bootstrap is added to a log.
LEMMA MarkerAdded ==
  ASSUME NEW l, LogLine(l), NEW r \in BootstrapRow
  PROVE  LogLine(Append(l, r))
  <1>1. PICK g : g = Append(l, r)
    OBVIOUS
  <1>2. l \in Seq(LogRow) /\ r \in LogRow /\ r.kind = "bootstrap"
    BY DEF LogLine, LogRow, BootstrapRow
  <1>3. /\ g \in Seq(LogRow) /\ Len(l) \in Nat
        /\ DOMAIN l = 1..Len(l) /\ DOMAIN g = 1..(Len(l) + 1)
        /\ g[Len(l) + 1] = r /\ \A i \in 1..Len(l) : g[i] = l[i]
        /\ Issues(g) = Issues(l) /\ Revokes(g) = Revokes(l)
    <2>1. OneMore(g, l, r)
      BY <1>1, <1>2, LogRowAdded
    <2>2. QED
      BY <1>2, <2>1 DEF OneMore
  <1>4. \A i \in DOMAIN g : g[i].kind = "issue" => i \in DOMAIN l /\ g[i] = l[i]
    BY <1>2, <1>3
  <1>5. \A i, j \in DOMAIN g :
          i # j /\ g[i].kind = "issue" /\ g[j].kind = "issue" /\ g[i].cap = g[j].cap =>
              g[i].gen # g[j].gen /\ g[i].key # g[j].key
    BY <1>4 DEF LogLine
  <1>6. \A s \in Issues(l) : (NewestIn(l, s) <=> NewestIn(g, s)) /\ (RevokedIn(l, s) <=> RevokedIn(g, s))
    BY <1>3 DEF NewestIn, RevokedIn
  <1>7. \A s \in Issues(g) : NewestIn(g, s) \/ RevokedIn(g, s)
    BY <1>3, <1>6 DEF LogLine
  <1>8. \A s \in Issues(g) : \E t \in Issues(g) : t.cap = s.cap /\ NewestIn(g, t)
    BY <1>3, <1>6 DEF LogLine
  <1>9. /\ \A s \in Issues(g) : decode_issue(s)
        /\ \A s \in Issues(g) : s.gen = 1 \/ \E t \in Issues(g) : t.cap = s.cap /\ t.gen = s.gen - 1
    BY <1>3 DEF LogLine
  <1>10. LogLine(g)
    BY <1>3, <1>5, <1>7, <1>8, <1>9 DEF LogLine
  <1>11. QED
    BY <1>1, <1>10

\* A credential is issued: of a new capability, or after the revoked newest of its own.
LEMMA IssueAdded ==
  ASSUME NEW l, LogLine(l), NEW r \in IssueRow, decode_issue(r),
         \A s \in Issues(l) : s.cap = r.cap => s.key # r.key,
         \/ r.gen = 1 /\ \A s \in Issues(l) : s.cap # r.cap
         \/ \E m \in Issues(l) : /\ m.cap = r.cap /\ r.gen = m.gen + 1
                                 /\ NewestIn(l, m) /\ RevokedIn(l, m)
  PROVE  LogLine(Append(l, r))
  <1>1. PICK g : g = Append(l, r)
    OBVIOUS
  <1>2. l \in Seq(LogRow) /\ r \in LogRow /\ r.kind = "issue" /\ r.gen \in Nat \ {0}
    BY DEF LogLine, LogRow, IssueRow
  <1>3. /\ g \in Seq(LogRow) /\ Len(l) \in Nat
        /\ DOMAIN l = 1..Len(l) /\ DOMAIN g = 1..(Len(l) + 1)
        /\ g[Len(l) + 1] = r /\ \A i \in 1..Len(l) : g[i] = l[i]
        /\ Issues(g) = {r} \cup Issues(l) /\ Revokes(g) = Revokes(l)
    <2>1. OneMore(g, l, r)
      BY <1>1, <1>2, LogRowAdded
    <2>2. QED
      BY <1>2, <2>1 DEF OneMore
  <1>4. /\ Issues(l) \subseteq IssueRow
        /\ \A i \in DOMAIN l : l[i].kind = "issue" => l[i] \in Issues(l)
    BY <1>2, RowKinds
  <1>5. \A s \in Issues(l) : s.gen \in Nat \ {0}
    BY <1>4 DEF IssueRow
  <1>6. \A s \in Issues(l) : s.cap = r.cap => s.gen < r.gen
    BY <1>2, <1>5 DEF NewestIn
  <1>7. \A i, j \in DOMAIN g :
          i # j /\ g[i].kind = "issue" /\ g[j].kind = "issue" /\ g[i].cap = g[j].cap =>
              g[i].gen # g[j].gen /\ g[i].key # g[j].key
    <2>1. \A i, j \in DOMAIN l :
          i # j /\ l[i].kind = "issue" /\ l[j].kind = "issue" /\ l[i].cap = l[j].cap =>
              l[i].gen # l[j].gen /\ l[i].key # l[j].key
      BY DEF LogLine
    <2>2. \A i \in DOMAIN l : l[i].kind = "issue" /\ l[i].cap = r.cap => l[i].gen # r.gen /\ l[i].key # r.key
      BY <1>2, <1>4, <1>5, <1>6
    <2>3. \A i \in DOMAIN g : (i \in DOMAIN l /\ g[i] = l[i]) \/ (i = Len(l) + 1 /\ g[i] = r)
      BY <1>3
    <2>4. QED
      BY <2>1, <2>2, <2>3
  <1>8. NewestIn(g, r)
    BY <1>2, <1>3, <1>5, <1>6 DEF NewestIn
  <1>9. \A s \in Issues(l) : s.cap # r.cap /\ NewestIn(l, s) => NewestIn(g, s)
    BY <1>3 DEF NewestIn
  <1>10. \A s \in Issues(l) : RevokedIn(l, s) => RevokedIn(g, s)
    BY <1>3 DEF RevokedIn
  <1>11. \A s \in Issues(l) : s.cap = r.cap => RevokedIn(l, s)
    <2>1. SUFFICES ASSUME NEW s \in Issues(l), s.cap = r.cap PROVE RevokedIn(l, s)
      OBVIOUS
    <2>2. PICK m \in Issues(l) : m.cap = r.cap /\ NewestIn(l, m) /\ RevokedIn(l, m)
      BY <2>1
    <2>3. CASE RevokedIn(l, s)
      BY <2>3
    <2>4. CASE NewestIn(l, s)
      <3>1. s.gen = m.gen
        BY <1>5, <2>1, <2>2, <2>4 DEF NewestIn
      <3>2. PICK i \in DOMAIN l : l[i].kind = "issue" /\ l[i] = s
        BY DEF Issues
      <3>3. PICK j \in DOMAIN l : l[j].kind = "issue" /\ l[j] = m
        BY <2>2 DEF Issues
      <3>4. i = j
        BY <2>1, <2>2, <3>1, <3>2, <3>3 DEF LogLine
      <3>5. QED
        BY <2>2, <3>2, <3>3, <3>4
    <2>5. QED
      BY <2>3, <2>4 DEF LogLine
  <1>12. \A s \in Issues(g) : NewestIn(g, s) \/ RevokedIn(g, s)
    BY <1>3, <1>8, <1>9, <1>10, <1>11 DEF LogLine
  <1>13. ASSUME NEW s \in Issues(g) PROVE \E t \in Issues(g) : t.cap = s.cap /\ NewestIn(g, t)
    <2>1. CASE s.cap = r.cap
      BY <1>3, <1>8, <2>1
    <2>2. CASE s.cap # r.cap
      <3>1. s \in Issues(l)
        BY <1>3, <1>13, <2>2
      <3>2. PICK t \in Issues(l) : t.cap = s.cap /\ NewestIn(l, t)
        BY <3>1 DEF LogLine
      <3>3. t \in Issues(g) /\ NewestIn(g, t)
        BY <1>3, <1>9, <2>2, <3>2
      <3>4. QED
        BY <3>2, <3>3
    <2>3. QED
      BY <2>1, <2>2
  <1>14. \A s \in Issues(g) : decode_issue(s)
    BY <1>3 DEF LogLine
  <1>15. r.gen = 1 \/ \E t \in Issues(l) : t.cap = r.cap /\ t.gen = r.gen - 1
    BY <1>2, <1>5
  <1>16. \A s \in Issues(g) : s.gen = 1 \/ \E t \in Issues(g) : t.cap = s.cap /\ t.gen = s.gen - 1
    BY <1>3, <1>15 DEF LogLine
  <1>17. LogLine(g)
    BY <1>3, <1>7, <1>12, <1>13, <1>14, <1>16 DEF LogLine
  <1>18. QED
    BY <1>1, <1>17

\* A log that was bootstrapped stays so under rows that are no markers.
LEMMA StaysBootstrapped ==
  ASSUME NEW l \in Seq(LogRow), require_bootstrapped(l), NEW r \in LogRow, r.kind # "bootstrap"
  PROVE  require_bootstrapped(Append(l, r))
  <1>1. PICK g : g = Append(l, r)
    OBVIOUS
  <1>2. /\ Len(l) \in Nat /\ DOMAIN l = 1..Len(l) /\ DOMAIN g = 1..(Len(l) + 1)
        /\ g[Len(l) + 1] = r /\ \A i \in 1..Len(l) : g[i] = l[i]
        /\ Issues(l) \subseteq Issues(g)
    <2>1. OneMore(g, l, r)
      BY <1>1, LogRowAdded
    <2>2. QED
      BY <2>1 DEF OneMore
  <1>3. {i \in DOMAIN g : g[i].kind = "bootstrap"} = {i \in DOMAIN l : l[i].kind = "bootstrap"}
    BY <1>2
  <1>4. {q.cap : q \in Issues(l)} \subseteq {q.cap : q \in Issues(g)}
    BY <1>2
  <1>5. require_bootstrapped(g)
    BY <1>3, <1>4 DEF require_bootstrapped
  <1>6. QED
    BY <1>1, <1>5

\* What a checked credential is: the newest key of a bootstrapped log's capability,
\* not revoked, and it is checked again as long as its policy lives.
CheckedFacts(l, cred, m) ==
    /\ m = matched(l, cred) /\ Len(l) # 0 /\ require_bootstrapped(l)
    /\ m \in Issues(l) /\ m.cap = cred.cap /\ m.key = cred.key /\ m.fp = cred.secret
    /\ m.gen = latest(l, cred.cap).gen /\ ~RevokedIn(l, m)
    /\ \A t : require_live(m.policy, t) => checked(l, cred, "any", FALSE, t) = "ok"

\* A credential that a read checked is all that.
LEMMA CheckedMeans ==
  ASSUME NEW l, NEW cred, NEW scope, NEW rotating \in BOOLEAN, NEW now,
         checked(l, cred, scope, rotating, now) = "ok"
  PROVE  CheckedFacts(l, cred, matched(l, cred))
  <1> DEFINE m == matched(l, cred)
             stale == m.gen # latest(l, cred.cap).gen
             unknown == cred.cap \notin {r.cap : r \in Issues(l)}
             there == \E r \in Issues(l) : r.cap = cred.cap /\ r.key = cred.key
             revoked == \E v \in Revokes(l) : v.cap = m.cap /\ v.key = m.key
  <1>0. ASSUME NEW t
        PROVE  checked(l, cred, "any", FALSE, t) =
            IF Len(l) = 0 THEN "not-bootstrapped"
            ELSE IF ~require_bootstrapped(l) THEN "invalid-record"
            ELSE IF unknown THEN "unknown-capability"
            ELSE IF ~there THEN "forged-credential"
            ELSE IF m.fp # cred.secret THEN "forged-credential"
            ELSE IF revoked THEN "revoked-credential"
            ELSE IF stale THEN "stale-generation"
            ELSE IF ~require_live(m.policy, t) THEN "expired-credential"
            ELSE "ok"
    BY DEF checked
  <1>1. ASSUME NEW s, NEW r, NEW t
        PROVE  checked(l, cred, s, r, t) =
            IF Len(l) = 0 THEN "not-bootstrapped"
            ELSE IF ~require_bootstrapped(l) THEN "invalid-record"
            ELSE IF unknown THEN "unknown-capability"
            ELSE IF ~there THEN "forged-credential"
            ELSE IF m.fp # cred.secret THEN "forged-credential"
            ELSE IF s # m.scope /\ s # "any" THEN "scope-denied"
            ELSE IF r /\ stale THEN "stale-generation"
            ELSE IF revoked THEN "revoked-credential"
            ELSE IF stale THEN "stale-generation"
            ELSE IF ~require_live(m.policy, t) THEN "expired-credential"
            ELSE "ok"
    BY DEF checked
  <1>2. there => m \in Issues(l) /\ m.cap = cred.cap /\ m.key = cred.key
    BY DEF matched
  <1>3. revoked <=> RevokedIn(l, m)
    BY DEF RevokedIn
  <1> HIDE DEF m, stale, unknown, there, revoked
  <1>4. /\ Len(l) # 0 /\ require_bootstrapped(l) /\ ~unknown /\ there /\ m.fp = cred.secret
        /\ (scope = m.scope \/ scope = "any") /\ ~stale /\ ~revoked /\ require_live(m.policy, now)
    BY <1>1
  <1>5. ASSUME NEW t, require_live(m.policy, t) PROVE checked(l, cred, "any", FALSE, t) = "ok"
    BY <1>0, <1>4, <1>5
  <1>6. m.gen = latest(l, cred.cap).gen
    BY <1>4 DEF stale
  <1>7. QED
    BY <1>2, <1>3, <1>4, <1>5, <1>6 DEF m, CheckedFacts

-----------------------------------------------------------------------------
\* The policies' numbers.
LEMMA PolicyTypes ==
  ASSUME NEW p \in Policies
  PROVE  p.expires \in Nat /\ p.admin \in Nat \cup {NoAdmin}
  <1>1. Never \in Nat
    BY AccessAssumption DEF Never
  <1>2. CASE p = entry_only(Never)
    BY <1>1, <1>2 DEF entry_only
  <1>3. CASE p = [scopes |-> {"a", "b"}, admin |-> 2, expires |-> Never]
    BY <1>1, <1>3
  <1>4. CASE p \in {q.policy : q \in Requests}
    BY <1>4, AccessAssumption
  <1>5. QED
    BY <1>2, <1>3, <1>4 DEF Policies

\* The latest of a capability is its newest issue.
LEMMA LatestIs ==
  ASSUME NEW l, LogLine(l), NEW m \in Issues(l), m.gen = latest(l, m.cap).gen
  PROVE  NewestIn(l, m)
  <1>1. PICK s \in Issues(l) : s.cap = m.cap /\ NewestIn(l, s)
    BY DEF LogLine
  <1>2. \A t \in Issues(l) : t.cap = m.cap => t.gen <= s.gen
    BY <1>1 DEF NewestIn
  <1>3. \A t \in Issues(l) : t.cap = m.cap => t.gen <= latest(l, m.cap).gen
    BY <1>1, <1>2 DEF latest
  <1>4. QED
    BY <1>3 DEF NewestIn

\* And the other way round.
LEMMA NewestIsLatest ==
  ASSUME NEW l, LogLine(l), NEW m \in Issues(l), NewestIn(l, m)
  PROVE  m.gen = latest(l, m.cap).gen
  <1>1. \A t \in Issues(l) : t.cap = m.cap => t.gen <= m.gen
    BY DEF NewestIn
  <1>2. /\ latest(l, m.cap) \in Issues(l) /\ latest(l, m.cap).cap = m.cap
        /\ m.gen <= latest(l, m.cap).gen
    BY <1>1 DEF latest
  <1>3. latest(l, m.cap).gen <= m.gen
    BY <1>1, <1>2
  <1>4. Issues(l) \subseteq IssueRow
    BY RowKinds DEF LogLine
  <1>5. m.gen \in Nat /\ latest(l, m.cap).gen \in Nat
    BY <1>2, <1>4 DEF IssueRow
  <1>6. QED
    BY <1>2, <1>3, <1>5

\* A batch of one row, and of two.
LEMMA OneRow ==
  ASSUME NEW l \in Seq(LogRow), NEW a \in LogRow
  PROVE  /\ l \o <<a>> = Append(l, a) /\ <<a>> \in Seq(LogRow)
         /\ \A i \in DOMAIN <<a>> : <<a>>[i] = a
  OBVIOUS

\* See OneRow.
LEMMA TwoRows ==
  ASSUME NEW l \in Seq(LogRow), NEW a \in LogRow, NEW b \in LogRow
  PROVE  /\ l \o <<a, b>> = Append(Append(l, a), b) /\ <<a, b>> \in Seq(LogRow)
         /\ \A i \in DOMAIN <<a, b>> : <<a, b>>[i] \in {a, b}
  OBVIOUS

\* What a caller may write on top of a log: it is sound with it, and up to an expiry the
\* caller is entitled to it.
LogRowSound(l, author, row, g, expires) ==
    /\ row \in LogRow /\ LogSound(g)
    /\ \A t \in Nat : t < expires => Entitled(l, author, row, t)

\* What an administrator issues.
LEMMA IssueSound ==
  ASSUME NEW l, LogSound(l), NEW q \in Requests, NEW cred \in Credentials, NEW admin \in Credentials,
         NEW now, checked(l, admin, "any", FALSE, now) = "ok",
         authorize(matched(l, admin).policy, q), cred.cap \notin {r.cap : r \in Issues(l)},
         NEW row, row = issue_row(cred, q)
  PROVE  LogRowSound(l, admin, row, Append(l, row), earliest(matched(l, admin).policy, q.policy))
  <1>1. PICK m : m = matched(l, admin)
    OBVIOUS
  <1>2. /\ Len(l) # 0 /\ require_bootstrapped(l) /\ m \in Issues(l)
        /\ \A t : require_live(m.policy, t) => checked(l, admin, "any", FALSE, t) = "ok"
    <2>1. CheckedFacts(l, admin, m)
      BY <1>1, CheckedMeans
    <2>2. QED
      BY <2>1 DEF CheckedFacts
  <1>3. row = [kind |-> "issue", cap |-> cred.cap, key |-> cred.key, fp |-> cred.secret, gen |-> 1,
               scope |-> q.scope, ceiling |-> q.ceiling, role |-> q.role, policy |-> q.policy]
    BY DEF issue_row
  <1>4. /\ row.kind = "issue" /\ row.gen = 1 /\ row.cap = cred.cap /\ row.policy = q.policy
        /\ row.scope = q.scope /\ row.ceiling = q.ceiling
    BY <1>3
  <1>5. row \in IssueRow
    BY <1>3, AccessAssumption DEF IssueRow, Credentials, Policies
  <1>6. row \in LogRow
    BY <1>5 DEF LogRow
  <1>7. decode_issue(row)
    <2>1. q.policy.admin = NoAdmin <=> q.policy.scopes = {}
      BY AccessAssumption
    <2>2. q.policy.admin <= q.ceiling
      BY DEF authorize
    <2>3. QED
      BY <1>4, <2>1, <2>2 DEF decode_issue
  <1>8. \A s \in Issues(l) : s.cap # row.cap
    BY <1>4
  <1>9. LogLine(l)
    BY DEF LogSound
  <1>10. LogLine(Append(l, row))
    BY <1>4, <1>5, <1>7, <1>8, <1>9, IssueAdded
  <1>11. l \in Seq(LogRow)
    BY <1>9 DEF LogLine
  <1>12. require_bootstrapped(Append(l, row))
    BY <1>2, <1>4, <1>6, <1>11, StaysBootstrapped
  <1>13. authorize(m.policy, row)
    BY <1>1, <1>4 DEF authorize
  <1>14. m.policy \in Policies
    BY <1>2, <1>11, RowKinds DEF IssueRow
  <1>15. ASSUME NEW t \in Nat, t < earliest(m.policy, q.policy) PROVE Entitled(l, admin, row, t)
    <2>1. m.policy.expires \in Nat /\ q.policy.expires \in Nat
      BY <1>14, PolicyTypes, AccessAssumption
    <2>2. t < m.policy.expires
      BY <1>15, <2>1 DEF earliest
    <2>3. checked(l, admin, "any", FALSE, t) = "ok"
      BY <1>2, <2>2 DEF require_live
    <2>4. /\ ~(row.kind = "issue" /\ row.gen > 1) /\ row.kind # "revoke"
          /\ authorize(matched(l, admin).policy, row)
      BY <1>1, <1>4, <1>13
    <2>5. QED
      BY <2>3, <2>4 DEF Entitled
  <1>16. LogSound(Append(l, row))
    BY <1>10, <1>12 DEF LogSound
  <1>17. QED
    BY <1>1, <1>6, <1>15, <1>16 DEF LogRowSound

\* What is known of the key that a revocation revoked.
Gone(l, current, m, g) ==
    /\ m \in Issues(l) /\ m.cap = current.cap /\ NewestIn(l, m) /\ RevokedIn(g, m)
    /\ Issues(g) = Issues(l) /\ g # <<>>
    /\ \A t : t < m.policy.expires => checked(l, current, "any", FALSE, t) = "ok"

\* What a revocation revokes.
LEMMA RevokeSound ==
  ASSUME NEW l, LogSound(l), NEW current \in Credentials, NEW rotating \in BOOLEAN,
         NEW now, checked(l, current, "any", rotating, now) = "ok",
         NEW m, m = matched(l, current), NEW row, row = revoke_row(m)
  PROVE  /\ LogRowSound(l, current, row, Append(l, row), m.policy.expires)
         /\ Gone(l, current, m, Append(l, row))
  <1>1. /\ Len(l) # 0 /\ require_bootstrapped(l) /\ m \in Issues(l)
        /\ m.cap = current.cap /\ m.gen = latest(l, current.cap).gen
        /\ \A t : require_live(m.policy, t) => checked(l, current, "any", FALSE, t) = "ok"
    <2>1. CheckedFacts(l, current, m)
      BY CheckedMeans
    <2>2. QED
      BY <2>1 DEF CheckedFacts
  <1>2. row = [kind |-> "revoke", cap |-> m.cap, key |-> m.key, gen |-> m.gen]
    BY DEF revoke_row
  <1>3. row.kind = "revoke" /\ row.cap = m.cap /\ row.key = m.key
    BY <1>2
  <1>4. LogLine(l) /\ l \in Seq(LogRow)
    BY DEF LogSound, LogLine
  <1>5. m \in IssueRow
    BY <1>1, <1>4, RowKinds
  <1>6. row \in RevokeRow
    BY <1>2, <1>5 DEF RevokeRow, IssueRow
  <1>7. row \in LogRow
    BY <1>6 DEF LogRow
  <1>8. LogLine(Append(l, row))
    BY <1>4, <1>6, RevocationAdded
  <1>9. require_bootstrapped(Append(l, row))
    BY <1>1, <1>3, <1>4, <1>7, StaysBootstrapped
  <1>10. NewestIn(l, m)
    BY <1>1, <1>4, LatestIs
  <1>11. OneMore(Append(l, row), l, row)
    BY <1>4, <1>7, LogRowAdded
  <1>12. Issues(Append(l, row)) = Issues(l) /\ row \in Revokes(Append(l, row)) /\ Append(l, row) # <<>>
    BY <1>3, <1>11 DEF OneMore
  <1>13. RevokedIn(Append(l, row), m)
    BY <1>3, <1>12 DEF RevokedIn
  <1>14. \A t : t < m.policy.expires => checked(l, current, "any", FALSE, t) = "ok"
    BY <1>1 DEF require_live
  <1>15. ASSUME NEW t \in Nat, t < m.policy.expires PROVE Entitled(l, current, row, t)
    <2>1. checked(l, current, "any", FALSE, t) = "ok"
      BY <1>14, <1>15
    <2>2. row.cap = matched(l, current).cap /\ row.key = matched(l, current).key /\ row.kind # "issue"
      BY <1>3
    <2>3. QED
      BY <2>1, <2>2 DEF Entitled
  <1>16. LogSound(Append(l, row))
    BY <1>8, <1>9 DEF LogSound
  <1>17. LogRowSound(l, current, row, Append(l, row), m.policy.expires)
    BY <1>7, <1>15, <1>16 DEF LogRowSound
  <1>18. Gone(l, current, m, Append(l, row))
    BY <1>1, <1>10, <1>12, <1>13, <1>14 DEF Gone
  <1>19. QED
    BY <1>17, <1>18

\* What a rotation issues after what it revokes.
LEMMA SuccessorSound ==
  ASSUME NEW l, LogSound(l), NEW current \in Credentials,
         NEW now, checked(l, current, "any", TRUE, now) = "ok",
         NEW key \in Keys, NEW secret \in Materials, NEW m, m = matched(l, current),
         ~\E r \in Issues(l) : r.cap = m.cap /\ r.key = key,
         NEW row, row = [kind |-> "issue", cap |-> m.cap, key |-> key, fp |-> secret,
                         gen |-> m.gen + 1, scope |-> m.scope, ceiling |-> m.ceiling,
                         role |-> m.role, policy |-> m.policy]
  PROVE  LogRowSound(l, current, row, Append(Append(l, revoke_row(m)), row), m.policy.expires)
  <1>1. PICK gone : gone = revoke_row(m)
    OBVIOUS
  <1>2. PICK g : g = Append(l, gone)
    OBVIOUS
  <1>3. LogRowSound(l, current, gone, g, m.policy.expires) /\ Gone(l, current, m, g)
    BY <1>1, <1>2, RevokeSound
  <1>4. /\ LogLine(g) /\ g \in Seq(LogRow) /\ Issues(g) = Issues(l) /\ RevokedIn(g, m)
        /\ NewestIn(l, m) /\ m \in Issues(l) /\ g # <<>> /\ require_bootstrapped(g)
        /\ \A t : t < m.policy.expires => checked(l, current, "any", FALSE, t) = "ok"
    BY <1>3 DEF LogSound, LogLine, LogRowSound, Gone
  <1>5. NewestIn(g, m)
    BY <1>4 DEF NewestIn
  <1>6. m \in IssueRow /\ decode_issue(m)
    BY <1>4, RowKinds DEF LogLine
  <1>7. row \in IssueRow
    BY <1>6 DEF IssueRow, KeyIds
  <1>8. /\ row.kind = "issue" /\ row.gen = m.gen + 1 /\ row.cap = m.cap /\ row.policy = m.policy
        /\ row.scope = m.scope /\ row.ceiling = m.ceiling /\ row.role = m.role /\ row.key = key
    OBVIOUS
  <1>9. m.gen \in Nat \ {0}
    BY <1>6 DEF IssueRow
  <1>10. decode_issue(row)
    BY <1>6, <1>8, <1>9 DEF decode_issue
  <1>11. \A s \in Issues(g) : s.cap = row.cap => s.key # row.key
    BY <1>4, <1>8
  <1>12. \E n \in Issues(g) : /\ n.cap = row.cap /\ row.gen = n.gen + 1
                              /\ NewestIn(g, n) /\ RevokedIn(g, n)
    BY <1>4, <1>5, <1>8
  <1>13. LogLine(Append(g, row))
    BY <1>4, <1>7, <1>10, <1>11, <1>12, IssueAdded
  <1>14. row \in LogRow
    BY <1>7 DEF LogRow
  <1>15. require_bootstrapped(Append(g, row))
    BY <1>4, <1>8, <1>14, StaysBootstrapped
  <1>16. ASSUME NEW t \in Nat, t < m.policy.expires PROVE Entitled(l, current, row, t)
    <2>1. checked(l, current, "any", FALSE, t) = "ok"
      BY <1>4, <1>16
    <2>2. row.gen # 1 /\ row.kind # "revoke"
      BY <1>8, <1>9
    <2>3. /\ row.cap = matched(l, current).cap /\ row.gen = matched(l, current).gen + 1
          /\ row.policy = matched(l, current).policy /\ row.scope = matched(l, current).scope
          /\ row.ceiling = matched(l, current).ceiling /\ row.role = matched(l, current).role
      BY <1>8
    <2>4. QED
      BY <2>1, <2>2, <2>3 DEF Entitled
  <1>17. LogSound(Append(g, row))
    BY <1>13, <1>15 DEF LogSound
  <1>18. LogRowSound(l, current, row, Append(g, row), m.policy.expires)
    BY <1>14, <1>16, <1>17 DEF LogRowSound
  <1>19. QED
    BY <1>1, <1>2, <1>18


-----------------------------------------------------------------------------
\* An empty log is one.
LEMMA EmptyLog == LogLine(<<>>) /\ <<>> \in Seq(LogRow) /\ Issues(<<>>) = {}
  <1>1. <<>> \in Seq(LogRow) /\ DOMAIN <<>> = {}
    OBVIOUS
  <1>2. Issues(<<>>) = {}
    BY <1>1 DEF Issues
  <1>3. QED
    BY <1>1, <1>2 DEF LogLine

\* The rows of a bootstrap make a sound log.
LEMMA BootstrapSound ==
  ASSUME NEW g \in Callers, NEW mark, mark = [kind |-> "bootstrap"],
         NEW rev \in IssueRow, rev.cap = "reviewer-1", rev.gen = 1, decode_issue(rev),
         NEW pub \in IssueRow, pub.cap = "publisher-1", pub.gen = 1, decode_issue(pub)
  PROVE  /\ <<mark, rev, pub>> \in Seq(LogRow)
         /\ LogSound(<<>> \o <<mark, rev, pub>>)
  <1>1. PICK a : a = Append(<<>>, mark)
    OBVIOUS
  <1>2. PICK b : b = Append(a, rev)
    OBVIOUS
  <1>3. PICK c : c = Append(b, pub)
    OBVIOUS
  <1>4. /\ mark \in BootstrapRow /\ mark \in LogRow /\ rev \in LogRow /\ pub \in LogRow
        /\ mark.kind = "bootstrap" /\ rev.kind = "issue" /\ pub.kind = "issue"
    BY DEF BootstrapRow, LogRow, IssueRow
  <1>5. LogLine(a) /\ OneMore(a, <<>>, mark)
    BY <1>1, <1>4, EmptyLog, MarkerAdded, LogRowAdded
  <1>6. a \in Seq(LogRow) /\ Issues(a) = {} /\ Len(a) = 1 /\ a[1] = mark
    BY <1>4, <1>5, EmptyLog DEF OneMore
  <1>7. LogLine(b)
    BY <1>2, <1>5, <1>6, IssueAdded
  <1>8. OneMore(b, a, rev)
    BY <1>2, <1>4, <1>6, LogRowAdded
  <1>9. b \in Seq(LogRow) /\ Issues(b) = {rev} /\ Len(b) = 2 /\ b[1] = mark /\ b[2] = rev
    BY <1>4, <1>6, <1>8 DEF OneMore
  <1>10. LogLine(c)
    BY <1>3, <1>7, <1>9, IssueAdded
  <1>11. OneMore(c, b, pub)
    BY <1>3, <1>4, <1>9, LogRowAdded
  <1>12. /\ c \in Seq(LogRow) /\ Issues(c) = {pub} \cup {rev} /\ DOMAIN c = 1..3
         /\ c[1] = mark /\ c[2] = rev /\ c[3] = pub
    BY <1>4, <1>9, <1>11 DEF OneMore
  <1>13. {i \in DOMAIN c : c[i].kind = "bootstrap"} = {1}
    BY <1>4, <1>12
  <1>14. Cardinality({1}) = 1
    BY FS_Singleton
  <1>15. require_bootstrapped(c)
    BY <1>12, <1>13, <1>14 DEF require_bootstrapped
  <1>16. LogSound(c)
    BY <1>10, <1>15 DEF LogSound
  <1>17. c = <<>> \o <<mark, rev, pub>> /\ <<mark, rev, pub>> \in Seq(LogRow)
    <2>1. PICK d : d = <<mark, rev, pub>>
      OBVIOUS
    <2>2. d \in Seq(LogRow) /\ Len(d) = 3 /\ d[1] = mark /\ d[2] = rev /\ d[3] = pub
      BY <1>4, <2>1
    <2>3. Len(c) = 3 /\ \A i \in 1..3 : c[i] = d[i]
      BY <1>12, <2>2
    <2>4. c = d
      BY <1>12, <2>2, <2>3, SeqEqual
    <2>5. <<>> \o d = d
      BY <2>2, ConcatEmptySeq
    <2>6. QED
      BY <2>1, <2>2, <2>4, <2>5
  <1>18. QED
    BY <1>16, <1>17

\* The head of a log that grows is the log that it was.
LEMMA Heads ==
  ASSUME NEW l \in Seq(LogRow), NEW rows \in Seq(LogRow), NEW n \in Nat, n <= Len(l)
  PROVE  SubSeq(l \o rows, 1, n) = SubSeq(l, 1, n) /\ SubSeq(l, 1, Len(l)) = l
  <1>1. l \o rows \in Seq(LogRow) /\ Len(l \o rows) = Len(l) + Len(rows) /\ Len(l) \in Nat /\ Len(rows) \in Nat
    OBVIOUS
  <1>2. \A i \in 1..n : (l \o rows)[i] = l[i]
    BY <1>1
  <1>3. QED
    BY <1>1, <1>2

-----------------------------------------------------------------------------
\* What is prepared stays sound when a caller's batch is put down or taken up.
LEMMA Prepared ==
  ASSUME AccessInv, NEW g \in Callers, NEW b, b # NoBatch => BatchSound(b),
         prepared' = [prepared EXCEPT ![g] = b]
  PROVE  /\ DOMAIN prepared' = Callers
         /\ \A h \in Callers : prepared'[h] # NoBatch => BatchSound(prepared'[h])
  <1>1. DOMAIN prepared = Callers /\ \A h \in Callers : prepared[h] # NoBatch => BatchSound(prepared[h])
    BY DEF AccessInv
  <1>2. /\ DOMAIN prepared' = Callers /\ prepared'[g] = b
        /\ \A h \in Callers : h # g => prepared'[h] = prepared[h]
    BY <1>1
  <1>3. QED
    BY <1>1, <1>2

\* A step that writes nothing.
LEMMA NothingWritten ==
  ASSUME AccessInv, UNCHANGED <<log, authored, held>>, wall' \in Nat,
         DOMAIN prepared' = Callers,
         \A g \in Callers : prepared'[g] # NoBatch => BatchSound(prepared'[g])
  PROVE  AccessInv'
  <1>1. PICK l, w : l = log' /\ w = authored' /\ l = log /\ w = authored
    OBVIOUS
  <1>2. LogWritten(l, w) /\ held' \subseteq Materials
    BY <1>1 DEF AccessInv
  <1>3. QED
    BY <1>1, <1>2 DEF AccessInv

\* A batch is prepared.
LEMMA Batching ==
  ASSUME AccessInv, NEW g \in Callers, NEW rows, NEW expires, NEW author,
         batch(g, rows, expires, author),
         rows \in Seq(LogRow), author \in {NoBatch} \cup Credentials, LogSound(log \o rows),
         author # NoBatch =>
            \A t \in Nat : t < expires => \A i \in DOMAIN rows : Entitled(log, author, rows[i], t)
  PROVE  AccessInv'
  <1>1. PICK l : l = log
    OBVIOUS
  <1>2. PICK b : b = [guard |-> l, rows |-> rows, expires |-> expires, author |-> author]
    OBVIOUS
  <1>3. b.guard = l /\ b.rows = rows /\ b.expires = expires /\ b.author = author
    BY <1>2
  <1>4. BatchSound(b)
    BY <1>1, <1>3 DEF BatchSound
  <1>5. prepared' = [prepared EXCEPT ![g] = b] /\ UNCHANGED <<log, authored, held, wall>>
    BY <1>1, <1>2 DEF batch
  <1>6. wall' \in Nat
    BY <1>5 DEF AccessInv
  <1>7. QED
    BY <1>4, <1>5, <1>6, Prepared, NothingWritten

\* A store is bootstrapped.
LEMMA Bootstraps ==
  ASSUME AccessInv, NEW g \in Callers, bootstrap(g)
  PROVE  AccessInv'
  <1>1. PICK mark, rev, pub :
          /\ mark = [kind |-> "bootstrap"]
          /\ rev = [kind |-> "issue", cap |-> "reviewer-1", key |-> "k1", fp |-> g, gen |-> 1,
                    scope |-> "a", ceiling |-> 1, role |-> "reviewer", policy |-> entry_only(Never)]
          /\ pub = [kind |-> "issue", cap |-> "publisher-1", key |-> "k1", fp |-> g, gen |-> 1,
                    scope |-> "a", ceiling |-> 2, role |-> "publisher",
                    policy |-> [scopes |-> {"a", "b"}, admin |-> 2, expires |-> Never]]
    OBVIOUS
  <1>2. log = <<>> /\ batch(g, <<mark, rev, pub>>, Never, NoBatch)
    BY <1>1 DEF bootstrap, issue_row
  <1>3. rev \in IssueRow /\ rev.cap = "reviewer-1" /\ rev.gen = 1
    BY <1>1 DEF IssueRow, Capabilities, KeyIds, Materials, Policies
  <1>4. pub \in IssueRow /\ pub.cap = "publisher-1" /\ pub.gen = 1
    BY <1>1 DEF IssueRow, Capabilities, KeyIds, Materials, Policies
  <1>5. decode_issue(rev)
    <2>1. rev.policy.admin = NoAdmin /\ rev.policy.scopes = {} /\ rev.gen >= 1
      BY <1>1 DEF entry_only
    <2>2. QED
      BY <2>1 DEF decode_issue
  <1>6. decode_issue(pub)
    <2>1. pub.policy.admin = 2 /\ pub.policy.scopes = {"a", "b"} /\ pub.gen >= 1 /\ pub.ceiling = 2
      BY <1>1
    <2>2. pub.policy.admin # NoAdmin /\ pub.policy.scopes # {} /\ pub.policy.admin <= pub.ceiling
      BY <2>1 DEF NoAdmin
    <2>3. QED
      BY <2>1, <2>2 DEF decode_issue
  <1>7. <<mark, rev, pub>> \in Seq(LogRow) /\ LogSound(<<>> \o <<mark, rev, pub>>)
    BY <1>1, <1>3, <1>4, <1>5, <1>6, BootstrapSound
  <1>8. PICK rows : rows = <<mark, rev, pub>>
    OBVIOUS
  <1>9. batch(g, rows, Never, NoBatch) /\ rows \in Seq(LogRow) /\ LogSound(log \o rows)
    BY <1>2, <1>7, <1>8
  <1>10. QED
    BY <1>9, Batching


\* What is presented is a credential, when the log is sound and the material known.
LEMMA PresentableTypes ==
  ASSUME AccessInv, NEW c \in Presentable
  PROVE  c \in Credentials /\ c.secret \in Materials
  <1>1. log \in Seq(LogRow) /\ held \subseteq Materials
    BY DEF AccessInv, LogWritten, LogSound, LogLine
  <1>2. Issues(log) \subseteq IssueRow
    BY <1>1, RowKinds
  <1>3. {r.cap : r \in Issues(log)} \subseteq Capabilities
    BY <1>2 DEF IssueRow
  <1>4. QED
    BY <1>1, <1>3 DEF Presentable, Credentials, KeyIds

\* An administrator issues a capability.
LEMMA IssueBatched ==
  ASSUME AccessInv, NEW g \in Callers, NEW current \in Presentable,
         NEW q \in Requests, NEW secret \in Secrets,
         issue_with_policy(g, current, [cap |-> q.cap, key |-> q.key, secret |-> secret], q)
  PROVE  AccessInv'
  <1>1. PICK l, cred : l = log /\ cred = [cap |-> q.cap, key |-> q.key, secret |-> secret]
    OBVIOUS
  <1>2. PICK row : row = issue_row(cred, q)
    OBVIOUS
  <1>3. PICK expires : expires = earliest(matched(l, current).policy, q.policy)
    OBVIOUS
  <1>4. /\ checked(l, current, "any", FALSE, wall) = "ok"
        /\ authorize(matched(l, current).policy, q)
        /\ cred.cap \notin {r.cap : r \in Issues(l)}
        /\ batch(g, <<row>>, expires, current)
    BY <1>1, <1>2, <1>3 DEF issue_with_policy
  <1>5. current \in Credentials
    BY PresentableTypes
  <1>6. cred \in Credentials
    BY <1>1 DEF Credentials, Capabilities, KeyIds, Materials
  <1>7. LogSound(l) /\ l \in Seq(LogRow)
    BY <1>1 DEF AccessInv, LogWritten, LogSound, LogLine
  <1>8. LogRowSound(l, current, row, Append(l, row), expires)
    BY <1>2, <1>3, <1>4, <1>5, <1>6, <1>7, IssueSound
  <1>9. row \in LogRow /\ LogSound(Append(l, row)) /\ \A t \in Nat : t < expires => Entitled(l, current, row, t)
    BY <1>8 DEF LogRowSound
  <1>10. PICK rows : rows = <<row>>
    OBVIOUS
  <1>11. l \o rows = Append(l, row) /\ rows \in Seq(LogRow) /\ \A i \in DOMAIN rows : rows[i] = row
    BY <1>7, <1>9, <1>10, OneRow
  <1>12. \A t \in Nat : t < expires => \A i \in DOMAIN rows : Entitled(log, current, rows[i], t)
    BY <1>1, <1>9, <1>11
  <1>13. LogSound(log \o rows)
    BY <1>1, <1>9, <1>11
  <1>14. batch(g, rows, expires, current)
    BY <1>4, <1>10
  <1>15. QED
    BY <1>5, <1>11, <1>12, <1>13, <1>14, Batching

\* A credential revokes itself.
LEMMA RevokeBatched ==
  ASSUME AccessInv, NEW g \in Callers, NEW current \in Presentable, revoke(g, current)
  PROVE  AccessInv'
  <1>1. PICK l : l = log
    OBVIOUS
  <1>2. PICK m : m = matched(l, current)
    OBVIOUS
  <1>3. PICK row : row = revoke_row(m)
    OBVIOUS
  <1>4. checked(l, current, "any", FALSE, wall) = "ok" /\ batch(g, <<row>>, m.policy.expires, current)
    BY <1>1, <1>2, <1>3 DEF revoke
  <1>5. current \in Credentials
    BY PresentableTypes
  <1>6. LogSound(l) /\ l \in Seq(LogRow)
    BY <1>1 DEF AccessInv, LogWritten, LogSound, LogLine
  <1>7. FALSE \in BOOLEAN
    OBVIOUS
  <1>8. LogRowSound(l, current, row, Append(l, row), m.policy.expires)
    BY <1>2, <1>3, <1>4, <1>5, <1>6, <1>7, RevokeSound
  <1>9. /\ row \in LogRow /\ LogSound(Append(l, row))
        /\ \A t \in Nat : t < m.policy.expires => Entitled(l, current, row, t)
    BY <1>8 DEF LogRowSound
  <1>10. PICK rows : rows = <<row>>
    OBVIOUS
  <1>11. l \o rows = Append(l, row) /\ rows \in Seq(LogRow) /\ \A i \in DOMAIN rows : rows[i] = row
    BY <1>6, <1>9, <1>10, OneRow
  <1>12. \A t \in Nat : t < m.policy.expires => \A i \in DOMAIN rows : Entitled(log, current, rows[i], t)
    BY <1>1, <1>9, <1>11
  <1>13. LogSound(log \o rows)
    BY <1>1, <1>9, <1>11
  <1>14. batch(g, rows, m.policy.expires, current)
    BY <1>4, <1>10
  <1>15. QED
    BY <1>5, <1>11, <1>12, <1>13, <1>14, Batching

\* A credential is rotated.
LEMMA RotateBatched ==
  ASSUME AccessInv, NEW g \in Callers, NEW current \in Presentable,
         NEW key \in Keys, NEW secret \in Secrets, rotate(g, current, key, secret)
  PROVE  AccessInv'
  <1>1. PICK l : l = log
    OBVIOUS
  <1>2. PICK m : m = matched(l, current)
    OBVIOUS
  <1>3. PICK gone : gone = revoke_row(m)
    OBVIOUS
  <1>4. PICK row : row = [kind |-> "issue", cap |-> m.cap, key |-> key, fp |-> secret,
                          gen |-> m.gen + 1, scope |-> m.scope, ceiling |-> m.ceiling,
                          role |-> m.role, policy |-> m.policy]
    OBVIOUS
  <1>5. /\ checked(l, current, "any", TRUE, wall) = "ok"
        /\ ~\E r \in Issues(l) : r.cap = m.cap /\ r.key = key
        /\ batch(g, <<gone, row>>, m.policy.expires, current)
    BY <1>1, <1>2, <1>3, <1>4 DEF rotate
  <1>6. current \in Credentials /\ secret \in Materials /\ TRUE \in BOOLEAN
    BY PresentableTypes DEF Materials
  <1>7. LogSound(l) /\ l \in Seq(LogRow)
    BY <1>1 DEF AccessInv, LogWritten, LogSound, LogLine
  <1>8. LogRowSound(l, current, gone, Append(l, gone), m.policy.expires)
    BY <1>2, <1>3, <1>5, <1>6, <1>7, RevokeSound
  <1>9. LogRowSound(l, current, row, Append(Append(l, gone), row), m.policy.expires)
    BY <1>2, <1>3, <1>4, <1>5, <1>6, <1>7, SuccessorSound
  <1>10. /\ gone \in LogRow /\ row \in LogRow /\ LogSound(Append(Append(l, gone), row))
         /\ \A t \in Nat : t < m.policy.expires => Entitled(l, current, gone, t)
         /\ \A t \in Nat : t < m.policy.expires => Entitled(l, current, row, t)
    BY <1>8, <1>9 DEF LogRowSound
  <1>11. PICK rows : rows = <<gone, row>>
    OBVIOUS
  <1>12. /\ l \o rows = Append(Append(l, gone), row) /\ rows \in Seq(LogRow)
         /\ \A i \in DOMAIN rows : rows[i] \in {gone, row}
    BY <1>7, <1>10, <1>11, TwoRows
  <1>13. \A t \in Nat : t < m.policy.expires => \A i \in DOMAIN rows : Entitled(log, current, rows[i], t)
    BY <1>1, <1>10, <1>12
  <1>14. LogSound(log \o rows)
    BY <1>1, <1>10, <1>12
  <1>15. batch(g, rows, m.policy.expires, current)
    BY <1>5, <1>11
  <1>16. QED
    BY <1>6, <1>12, <1>13, <1>14, <1>15, Batching

\* A batch is put down.
LEMMA PutDown ==
  ASSUME AccessInv, NEW g \in Callers, prepared' = [prepared EXCEPT ![g] = NoBatch]
  PROVE  /\ DOMAIN prepared' = Callers
         /\ \A h \in Callers : prepared'[h] # NoBatch => BatchSound(prepared'[h])
  <1>1. PICK b : b = NoBatch
    OBVIOUS
  <1>2. (b # NoBatch => BatchSound(b)) /\ prepared' = [prepared EXCEPT ![g] = b]
    BY <1>1
  <1>3. QED
    BY <1>2, Prepared

\* What a sequence is that another was put after.
After(S, u, v, n, k, z) ==
    /\ z \in Seq(S) /\ Len(z) = n + k /\ DOMAIN z = 1..(n + k)
    /\ \A i \in 1..n : z[i] = u[i]
    /\ \A j \in 1..k : z[n + j] = v[j]

\* The concatenation is one.
LEMMA PutAfter ==
  ASSUME NEW S, NEW u \in Seq(S), NEW v \in Seq(S), NEW n \in Nat, Len(u) = n,
         NEW k \in Nat, Len(v) = k
  PROVE  After(S, u, v, n, k, u \o v)
  <1>0. PICK z : z = u \o v
    OBVIOUS
  <1>1. /\ z \in Seq(S) /\ Len(z) = n + k
        /\ \A i \in 1..(n + k) : z[i] = IF i <= n THEN u[i] ELSE v[i - n]
    BY <1>0, ConcatProperties
  <1>2. DOMAIN z = 1..(n + k)
    BY <1>1, LenProperties
  <1>3. \A i \in 1..n : i \in 1..(n + k) /\ i <= n
    OBVIOUS
  <1>4. \A j \in 1..k : n + j \in 1..(n + k) /\ ~(n + j <= n) /\ (n + j) - n = j
    OBVIOUS
  <1>5. After(S, u, v, n, k, z)
    BY <1>1, <1>2, <1>3, <1>4 DEF After
  <1>6. QED
    BY <1>0, <1>5

\* A sequence of one thing.
LEMMA SameThroughout ==
  ASSUME NEW S, NEW s \in S, NEW k \in Nat, NEW z \in [1..k -> {s}]
  PROVE  z \in Seq(S) /\ Len(z) = k /\ \A i \in 1..k : z[i] = s
  <1>1. z \in [1..k -> S] /\ \A i \in 1..k : z[i] = s
    OBVIOUS
  <1>2. z \in Seq(S)
    BY <1>1, SeqDef
  <1>3. Len(z) \in Nat /\ DOMAIN z = 1..Len(z)
    BY <1>2, LenProperties
  <1>4. Len(z) = k
    BY <1>1, <1>3
  <1>5. QED
    BY <1>1, <1>2, <1>4

\* The stamps of a batch that is committed at a time.
Stamped(l, b, t, stamps) ==
    /\ t \in Nat /\ t < b.expires
    /\ stamps \in [DOMAIN b.rows -> {[author |-> b.author, at |-> t, before |-> Len(l)]}]

\* A sound batch is committed on the log it read, before it expires.
LEMMA CommitSound ==
  ASSUME NEW l, NEW w, LogWritten(l, w), NEW b, BatchSound(b), b.guard = l,
         NEW t, NEW stamps, Stamped(l, b, t, stamps)
  PROVE  LogWritten(l \o b.rows, w \o stamps)
  <1> PICK s : s = [author |-> b.author, at |-> t, before |-> Len(l)]
    OBVIOUS
  <1> PICK l2, w2 : l2 = l \o b.rows /\ w2 = w \o stamps
    OBVIOUS
  <1>0. /\ LogSound(l) /\ w \in Seq(Stamp) /\ Len(w) = Len(l) /\ \A i \in DOMAIN l : WrittenBy(l, w, i)
        /\ t \in Nat /\ t < b.expires /\ stamps \in [DOMAIN b.rows -> {s}]
    BY DEF LogWritten, Stamped
  <1>1. /\ l \in Seq(LogRow) /\ b.rows \in Seq(LogRow) /\ b.author \in {NoBatch} \cup Credentials
        /\ LogSound(l2)
    <2>1. l \in Seq(LogRow)
      BY <1>0 DEF LogSound, LogLine
    <2>2. QED
      BY <2>1 DEF BatchSound
  <1>2. PICK n, k : n = Len(l) /\ k = Len(b.rows)
    OBVIOUS
  <1>3. n \in Nat /\ k \in Nat /\ DOMAIN l = 1..n /\ DOMAIN b.rows = 1..k /\ Len(w) = n
    BY <1>0, <1>1, <1>2
  <1>4. s.author = b.author /\ s.at = t /\ s.before = n
    BY <1>2
  <1>5. s \in Stamp
    BY <1>0, <1>1, <1>2, <1>3 DEF Stamp
  <1>6. stamps \in [1..k -> {s}]
    BY <1>0, <1>3
  <1>7. stamps \in Seq(Stamp) /\ Len(stamps) = k /\ \A i \in 1..k : stamps[i] = s
    BY <1>3, <1>5, <1>6, SameThroughout
  <1>8. After(Stamp, w, stamps, n, k, w2)
    BY <1>0, <1>3, <1>7, PutAfter
  <1>9. After(LogRow, l, b.rows, n, k, l2)
    BY <1>1, <1>2, <1>3, PutAfter
  <1>10. \A m \in Nat : m <= n => SubSeq(l2, 1, m) = SubSeq(l, 1, m)
    BY <1>1, <1>2, Heads
  <1>11. SubSeq(l2, 1, n) = l
    BY <1>1, <1>2, <1>3, <1>10, Heads
  <1>12. ASSUME NEW i \in 1..n PROVE WrittenBy(l2, w2, i)
    <2>1. l2[i] = l[i] /\ w2[i] = w[i]
      BY <1>8, <1>9 DEF After
    <2>2. /\ w[i] \in Stamp /\ w[i].before <= n
          /\ w[i].author # NoBatch => Entitled(SubSeq(l, 1, w[i].before), w[i].author, l[i], w[i].at)
      BY <1>0, <1>2, <1>3 DEF WrittenBy
    <2>3. w[i].before \in Nat
      BY <2>2 DEF Stamp
    <2>4. SubSeq(l2, 1, w[i].before) = SubSeq(l, 1, w[i].before)
      BY <1>10, <2>2, <2>3
    <2>5. Len(l2) = n + k
      BY <1>9 DEF After
    <2>6. w[i].before <= Len(l2)
      BY <1>3, <2>2, <2>3, <2>5
    <2>7. w2[i].author # NoBatch => Entitled(SubSeq(l2, 1, w2[i].before), w2[i].author, l2[i], w2[i].at)
      BY <2>1, <2>2, <2>4
    <2>8. QED
      BY <2>1, <2>2, <2>6, <2>7 DEF WrittenBy
  <1>13. ASSUME NEW j \in 1..k PROVE WrittenBy(l2, w2, n + j)
    <2>1. l2[n + j] = b.rows[j] /\ w2[n + j] = s /\ Len(l2) = n + k
      BY <1>7, <1>8, <1>9 DEF After
    <2>2. b.author # NoBatch => Entitled(l, b.author, b.rows[j], t)
      BY <1>0, <1>3 DEF BatchSound
    <2>3. s.before <= Len(l2)
      BY <1>3, <1>4, <2>1
    <2>4. w2[n + j].author # NoBatch =>
             Entitled(SubSeq(l2, 1, w2[n + j].before), w2[n + j].author, l2[n + j], w2[n + j].at)
      BY <1>4, <1>11, <2>1, <2>2
    <2>5. QED
      BY <1>5, <2>1, <2>3, <2>4 DEF WrittenBy
  <1>14. ASSUME NEW i \in 1..(n + k) PROVE WrittenBy(l2, w2, i)
    <2>1. CASE i \in 1..n
      BY <1>12, <2>1
    <2>2. CASE i \notin 1..n
      <3>1. i - n \in 1..k /\ i = n + (i - n)
        BY <1>3, <2>2
      <3>2. PICK j \in 1..k : i = n + j
        BY <3>1
      <3>3. QED
        BY <1>13, <3>2
    <2>3. QED
      BY <2>1, <2>2
  <1>15. /\ w2 \in Seq(Stamp) /\ Len(w2) = Len(l2)
         /\ \A i \in DOMAIN l2 : WrittenBy(l2, w2, i)
    BY <1>8, <1>9, <1>14 DEF After
  <1>16. LogWritten(l2, w2)
    BY <1>1, <1>15 DEF LogWritten
  <1>17. QED
    BY <1>16

\* A caller submits what it prepared.
LEMMA BatchSubmitted ==
  ASSUME AccessInv, NEW g \in Callers, submit_batch(g)
  PROVE  AccessInv'
  <1>1. PICK p : p = prepared[g]
    OBVIOUS
  <1>2. PICK stamps : stamps = [i \in DOMAIN p.rows |-> [author |-> p.author, at |-> wall, before |-> Len(log)]]
    OBVIOUS
  <1>3. /\ p # NoBatch
        /\ log' = IF Unchanged(p) /\ Live(p) THEN log \o p.rows ELSE log
        /\ authored' = IF Unchanged(p) /\ Live(p) THEN authored \o stamps ELSE authored
        /\ held' = held \/ held' = held \cup {g}
        /\ prepared' = [prepared EXCEPT ![g] = NoBatch]
        /\ UNCHANGED wall
    BY <1>1, <1>2 DEF submit_batch
  <1>4. /\ DOMAIN prepared' = Callers
        /\ \A h \in Callers : prepared'[h] # NoBatch => BatchSound(prepared'[h])
    BY <1>3, PutDown
  <1>5. held' \subseteq Materials /\ wall' \in Nat /\ wall \in Nat
    BY <1>3 DEF AccessInv, Materials
  <1>6. LogWritten(log, authored) /\ BatchSound(p)
    BY <1>1, <1>3 DEF AccessInv
  <1>7. PICK l, w : l = log' /\ w = authored'
    OBVIOUS
  <1>8. LogWritten(l, w)
    <2>1. CASE Unchanged(p) /\ Live(p)
      <3>1. p.guard = log /\ wall < p.expires
        BY <2>1 DEF Unchanged, Live
      <3>2. l = log \o p.rows /\ w = authored \o stamps
        BY <1>3, <1>7, <2>1
      <3>3. Stamped(log, p, wall, stamps)
        BY <1>2, <1>5, <3>1 DEF Stamped
      <3>4. QED
        BY <1>6, <3>1, <3>2, <3>3, CommitSound
    <2>2. CASE ~(Unchanged(p) /\ Live(p))
      BY <1>3, <1>6, <1>7, <2>2
    <2>3. QED
      BY <2>1, <2>2
  <1>9. QED
    BY <1>4, <1>5, <1>7, <1>8 DEF AccessInv

\* No step breaks it.
LEMMA AccessStep == AccessInv /\ [AccessNext]_accessVars => AccessInv'
  <1>1. SUFFICES ASSUME AccessInv, [AccessNext]_accessVars PROVE AccessInv'
    OBVIOUS
  <1>2. ASSUME UNCHANGED <<log, authored, held, prepared>>, wall' \in Nat PROVE AccessInv'
    <2>1. /\ DOMAIN prepared' = Callers
          /\ \A g \in Callers : prepared'[g] # NoBatch => BatchSound(prepared'[g])
      BY <1>1, <1>2 DEF AccessInv
    <2>2. QED
      BY <1>1, <1>2, <2>1, NothingWritten
  <1>3. CASE UNCHANGED accessVars
    BY <1>1, <1>2, <1>3 DEF accessVars, AccessInv
  <1>4. CASE Clock
    <2>1. wall' \in Nat
      BY <1>4, AccessAssumption DEF Clock
    <2>2. QED
      BY <1>2, <1>4, <2>1 DEF Clock
  <1>5. ASSUME NEW g \in Callers, Abandon(g) PROVE AccessInv'
    <2>1. /\ UNCHANGED <<log, authored, held>> /\ prepared' = [prepared EXCEPT ![g] = NoBatch]
          /\ wall' \in Nat
      BY <1>1, <1>5 DEF Abandon, AccessInv
    <2>2. QED
      BY <1>1, <2>1, PutDown, NothingWritten
  <1>6. QED
    BY <1>1, <1>3, <1>4, <1>5, Bootstraps, BatchSubmitted, IssueBatched, RotateBatched, RevokeBatched
       DEF AccessNext

\* An empty log is where it begins.
LEMMA AccessInitially == AccessInit => AccessInv
  <1>1. SUFFICES ASSUME AccessInit PROVE AccessInv
    OBVIOUS
  <1>2. /\ log = <<>> /\ authored = <<>> /\ prepared = [g \in Callers |-> NoBatch]
        /\ held = Secrets /\ wall = 0
    BY <1>1 DEF AccessInit
  <1>3. LogSound(log)
    BY <1>2, EmptyLog DEF LogSound
  <1>4. /\ authored \in Seq(Stamp) /\ Len(authored) = Len(log) /\ DOMAIN log = {}
        /\ DOMAIN prepared = Callers /\ \A g \in Callers : prepared[g] = NoBatch
        /\ held \subseteq Materials /\ wall \in Nat
    BY <1>2 DEF Materials
  <1>5. QED
    BY <1>3, <1>4 DEF AccessInv, LogWritten

-----------------------------------------------------------------------------
\* Two credentials of a capability that are both checked are one.
LEMMA OneEnters ==
  ASSUME NEW l, LogLine(l), NEW c, NEW d, NEW m, NEW k, c.cap = d.cap,
         CheckedFacts(l, c, m), CheckedFacts(l, d, k)
  PROVE  c.key = d.key /\ c.secret = d.secret
  <1>1. /\ m \in Issues(l) /\ m.cap = c.cap /\ m.key = c.key /\ m.fp = c.secret
        /\ k \in Issues(l) /\ k.cap = d.cap /\ k.key = d.key /\ k.fp = d.secret
        /\ m.gen = k.gen
    BY DEF CheckedFacts
  <1>2. PICK i \in DOMAIN l : l[i].kind = "issue" /\ l[i] = m
    BY <1>1 DEF Issues
  <1>3. PICK j \in DOMAIN l : l[j].kind = "issue" /\ l[j] = k
    BY <1>1 DEF Issues
  <1>4. i = j
    BY <1>1, <1>2, <1>3 DEF LogLine
  <1>5. QED
    BY <1>1, <1>2, <1>3, <1>4

\* The log can be read back.
LEMMA LogReadable == AccessInv => GateReadable
  <1>1. SUFFICES ASSUME AccessInv PROVE GateReadable
    OBVIOUS
  <1>2. LogLine(log) /\ log \in Seq(LogRow) /\ (log # <<>> => require_bootstrapped(log))
    BY <1>1 DEF AccessInv, LogWritten, LogSound, LogLine
  <1>3. Issues(log) \subseteq IssueRow
    BY <1>2, RowKinds
  <1>4. Len(log) \in 1 .. ReplayRows => gate_open(log)
    <2>1. SUFFICES ASSUME Len(log) \in 1 .. ReplayRows PROVE gate_open(log)
      OBVIOUS
    <2>2. Len(log) <= ReplayRows /\ log # <<>>
      BY <1>2, <2>1, AccessAssumption
    <2>3. read(log)
      BY <1>2, <2>2 DEF read, LogLine
    <2>4. QED
      BY <1>2, <2>2, <2>3 DEF gate_open
  <1>5. ASSUME NEW r \in Issues(log)
        PROVE  /\ r.gen = 1 \/ \E s \in Issues(log) : s.cap = r.cap /\ s.gen = r.gen - 1
               /\ r.gen = latest(log, r.cap).gen \/ \E v \in Revokes(log) : v.cap = r.cap /\ v.key = r.key
    <2>1. r.gen = 1 \/ \E s \in Issues(log) : s.cap = r.cap /\ s.gen = r.gen - 1
      BY <1>2 DEF LogLine
    <2>2. NewestIn(log, r) \/ RevokedIn(log, r)
      BY <1>2 DEF LogLine
    <2>3. CASE NewestIn(log, r)
      BY <1>2, <2>1, <2>3, NewestIsLatest
    <2>4. CASE RevokedIn(log, r)
      BY <2>1, <2>4 DEF RevokedIn
    <2>5. QED
      BY <2>2, <2>3, <2>4
  <1>6. ASSUME NEW scope, NEW required, NEW c, enter(log, c, scope, required, wall) = "ok"
        PROVE  /\ checked(log, c, scope, FALSE, wall) = "ok" /\ read(log)
               /\ CheckedFacts(log, c, matched(log, c))
               /\ ~(matched(log, c).ceiling < (IF required = "publisher" THEN 2 ELSE 1))
    <2>1. PICK m : m = matched(log, c)
      OBVIOUS
    <2>2. /\ checked(log, c, scope, FALSE, wall) = "ok" /\ read(log)
          /\ ~(m.ceiling < (IF required = "publisher" THEN 2 ELSE 1))
      BY <1>6, <2>1 DEF enter
    <2>3. FALSE \in BOOLEAN
      OBVIOUS
    <2>4. CheckedFacts(log, c, matched(log, c))
      BY <2>2, <2>3, CheckedMeans
    <2>5. QED
      BY <2>1, <2>2, <2>4
  <1>7. ASSUME NEW scope, NEW c, enter(log, c, scope, "publisher", wall) = "ok"
        PROVE  enter(log, c, scope, "reviewer", wall) = "ok"
    <2>1. PICK m : m = matched(log, c)
      OBVIOUS
    <2>2. /\ checked(log, c, scope, FALSE, wall) = "ok" /\ read(log) /\ CheckedFacts(log, c, m)
          /\ ~(m.ceiling < 2)
      BY <1>6, <1>7, <2>1
    <2>3. m.ceiling \in Nat
      BY <1>3, <2>2 DEF CheckedFacts, IssueRow
    <2>4. ~(m.ceiling < 1)
      BY <2>2, <2>3
    <2>5. QED
      BY <2>1, <2>2, <2>4 DEF enter
  <1>8. ASSUME NEW scope, NEW c \in Presentable, NEW d \in Presentable, c.cap = d.cap,
               enter(log, c, scope, "reviewer", wall) = "ok", enter(log, d, scope, "reviewer", wall) = "ok"
        PROVE  c = d
    <2>1. CheckedFacts(log, c, matched(log, c)) /\ CheckedFacts(log, d, matched(log, d))
      BY <1>6, <1>8
    <2>2. c.key = d.key /\ c.secret = d.secret
      BY <1>2, <1>8, <2>1, OneEnters
    <2>3. QED
      BY <1>8, <2>2 DEF Presentable
  <1>9. QED
    BY <1>4, <1>5, <1>7, <1>8 DEF GateReadable

\* Every row was written with authority.
LEMMA RowsAuthorised == AccessInv => AuthorityAtCommit
  <1>1. SUFFICES ASSUME AccessInv, NEW i \in DOMAIN log, authored[i].author # NoBatch
        PROVE  Entitled(SubSeq(log, 1, authored[i].before), authored[i].author, log[i], authored[i].at)
    BY DEF AuthorityAtCommit, Entitled
  <1>2. QED
    BY <1>1 DEF AccessInv, LogWritten, WrittenBy

\* No row of the access log is written without the authority it needs at the instant it
\* is committed, whatever was committed and however the clock moved since its author read
\* the log, and the log that comes of it can always be read back: one bootstrap, of every
\* capability one line of generations, all but the newest revoked, and one key that enters.
THEOREM AuthorityHolds == AccessSpec => []AccessSound
  <1>1. AccessInv => AccessSound
    BY LogReadable, RowsAuthorised DEF AccessSound
  <1>2. QED
    BY <1>1, AccessInitially, AccessStep, PTL DEF AccessSpec

-----------------------------------------------------------------------------
(* The binding registry.                                                   *)

\* A history is a sequence.
HistorySeq(h) == h \in Seq({h[i] : i \in DOMAIN h})

\* The rows an operation identity was committed at.
ReceiptIn(h, o) == {i \in DOMAIN h : h[i].op = o}

\* A prepared row: it is the next one of the history it was prepared on, true there, and
\* of the intent of its operation; once it is guarded its credential is live unless the
\* access history has changed since it was captured.
WorkTrue(w, h, ints, acc) ==
    /\ w = [at |-> w.at, op |-> w.op, guard |-> w.guard, captured |-> w.captured, row |-> w.row]
    /\ w.row = [sequence |-> w.row.sequence, revision |-> w.row.revision, op |-> w.row.op,
                kind |-> w.row.kind, body |-> w.row.body, entitled |-> w.row.entitled]
    /\ w.at \in {"captured", "guarded", "unguarded"}
    /\ w.row.sequence = Len(w.guard) + 1 /\ w.row.revision = revision(w.guard) /\ w.row.op = w.op
    /\ replay_finding(w.row)
    /\ w.row.kind \in {"equipment", "place"} => w.row.body.id \notin identities(w.guard)
    /\ w.row.kind \in {"propose", "finding"} => w.op # NoWork /\ TrueOf(w.guard, w.row)
    /\ w.op = NoWork <=> w.at = "unguarded"
    /\ w.op # NoWork =>
          /\ w.op \in Operations /\ ints[w.op] # NoWork /\ w.row.body.binding = ints[w.op].binding
          /\ w.captured \in Nat /\ w.captured <= acc.version
          /\ \A i \in ReceiptIn(h, w.op) : h[i].body.binding = ints[w.op].binding
    /\ w.at = "guarded" /\ acc.version = w.captured => ~acc.revoked

\* The row an operation was told of.
ToldTrue(t, h, o, ints) ==
    t # 0 => ints[o] # NoWork /\ t \in ReceiptIn(h, o) /\ h[t].body.binding = ints[o].binding

BindingInv ==
    /\ HistoryTrue(history) /\ HistorySeq(history)
    /\ DOMAIN work = Registries /\ DOMAIN intents = Operations /\ DOMAIN told = Operations
    /\ access.version \in Nat
    /\ access = [version |-> access.version, revoked |-> access.revoked, expired |-> access.expired]
    /\ \A r \in Registries : work[r] # NoWork => WorkTrue(work[r], history, intents, access)
    /\ \A o \in Operations : ToldTrue(told[o], history, o, intents)

-----------------------------------------------------------------------------
\* A history that is one row longer.
Longer(h, row, z) ==
    /\ Len(h) \in Nat /\ DOMAIN h = 1..Len(h) /\ DOMAIN z = 1..(Len(h) + 1)
    /\ \A i \in 1..Len(h) : z[i] = h[i]
    /\ z[Len(h) + 1] = row
    /\ \A m \in Nat : m <= Len(h) => SubSeq(z, 1, m) = SubSeq(h, 1, m)
    /\ SubSeq(z, 1, Len(h)) = h
    /\ HistorySeq(z)

\* An appended row makes it so.
LEMMA LongerAppended ==
  ASSUME NEW h, HistorySeq(h), NEW row
  PROVE  Longer(h, row, Append(h, row))
  <1>1. PICK S : S = {h[i] : i \in DOMAIN h} \cup {row}
    OBVIOUS
  <1>2. h \in Seq(S) /\ row \in S
    <2>1. h \in Seq({h[i] : i \in DOMAIN h}) /\ {h[i] : i \in DOMAIN h} \subseteq S
      BY <1>1 DEF HistorySeq
    <2>2. QED
      BY <1>1, <2>1
  <1>3. PICK z : z = Append(h, row)
    OBVIOUS
  <1>4. /\ z \in Seq(S) /\ Len(h) \in Nat /\ DOMAIN h = 1..Len(h) /\ DOMAIN z = 1..(Len(h) + 1)
        /\ Len(z) = Len(h) + 1 /\ \A i \in 1..Len(h) : z[i] = h[i]
        /\ z[Len(h) + 1] = row
    BY <1>2, <1>3
  <1>5. \A m \in Nat : m <= Len(h) => SubSeq(z, 1, m) = SubSeq(h, 1, m)
    BY <1>2, <1>4
  <1>6. SubSeq(z, 1, Len(h)) = h
    BY <1>2, <1>4
  <1>7. HistorySeq(z)
    <2>1. z \in [1..Len(z) -> {z[i] : i \in DOMAIN z}] /\ Len(z) \in Nat
      BY <1>4
    <2>2. QED
      BY <2>1, SeqDef DEF HistorySeq
  <1>8. QED
    BY <1>3, <1>4, <1>5, <1>6, <1>7 DEF Longer

\* The next row of a history keeps it true.
NextRow(h, row) ==
    /\ row.sequence = Len(h) + 1 /\ row.revision = revision(h) /\ replay_finding(row)
    /\ row.kind \in {"equipment", "place"} => row.body.id \notin identities(h)
    /\ row.kind \in {"propose", "finding"} => row.entitled /\ TrueOf(h, row)
    /\ row.op = NoWork \/ ReceiptIn(h, row.op) = {}

\* A true history stays so under a next row.
LEMMA HistoryGrows ==
  ASSUME NEW h, HistorySeq(h), HistoryTrue(h), NEW row, NextRow(h, row), NEW z, Longer(h, row, z)
  PROVE  HistoryTrue(z)
  <1>1. PICK n : n = Len(h)
    OBVIOUS
  <1>2. /\ n \in Nat /\ DOMAIN h = 1..n /\ DOMAIN z = 1..(n + 1)
        /\ \A i \in 1..n : z[i] = h[i]
        /\ z[n + 1] = row
        /\ \A m \in Nat : m <= n => SubSeq(z, 1, m) = SubSeq(h, 1, m)
        /\ SubSeq(z, 1, n) = h
    BY <1>1 DEF Longer
  <1>3. \A i \in 1..n : SubSeq(z, 1, i - 1) = SubSeq(h, 1, i - 1)
    <2>1. \A i \in 1..n : i - 1 \in Nat /\ i - 1 <= n
      BY <1>2
    <2>2. QED
      BY <1>2, <2>1
  <1>4. SubSeq(z, 1, (n + 1) - 1) = h
    <2>1. (n + 1) - 1 = n
      BY <1>2
    <2>2. QED
      BY <1>2, <2>1
  <1>5. \A i \in 1..(n + 1) : i \in 1..n \/ i = n + 1
    BY <1>2
  <1>6. replay(z)
    <2>1. ASSUME NEW i \in 1..n
          PROVE  z[i].sequence = i /\ z[i].revision = revision(SubSeq(z, 1, i - 1)) /\ replay_finding(z[i])
      <3>1. h[i].sequence = i /\ h[i].revision = revision(SubSeq(h, 1, i - 1)) /\ replay_finding(h[i])
        BY <1>2 DEF HistoryTrue, replay
      <3>2. QED
        BY <1>2, <1>3, <3>1
    <2>2. /\ z[n + 1].sequence = n + 1 /\ z[n + 1].revision = revision(SubSeq(z, 1, (n + 1) - 1))
          /\ replay_finding(z[n + 1])
      BY <1>1, <1>2, <1>4 DEF NextRow
    <2>3. QED
      BY <1>2, <1>5, <2>1, <2>2 DEF replay
  <1>7. ASSUME NEW i \in 1..n
        PROVE  /\ {i, n + 1} \subseteq Rows(z, "equipment") \cup Rows(z, "place") =>
                      z[i].body.id # z[n + 1].body.id
               /\ z[n + 1].op = NoWork \/ z[i].op # z[n + 1].op
    <2>1. z[i] = h[i] /\ z[n + 1] = row /\ i \in DOMAIN h
      BY <1>2
    <2>2. ASSUME {i, n + 1} \subseteq Rows(z, "equipment") \cup Rows(z, "place")
          PROVE  z[i].body.id # z[n + 1].body.id
      <3>1. h[i].kind \in {"equipment", "place"} /\ row.kind \in {"equipment", "place"}
        BY <2>1, <2>2 DEF Rows
      <3>2. h[i].body.id \in identities(h)
        BY <2>1, <3>1 DEF identities, Rows
      <3>3. QED
        BY <2>1, <3>1, <3>2 DEF NextRow
    <2>3. row.op = NoWork \/ h[i].op # row.op
      BY <2>1 DEF NextRow, ReceiptIn
    <2>4. QED
      BY <2>1, <2>2, <2>3
  <1>8. ASSUME NEW i \in 1..n, NEW j \in 1..n, i # j
        PROVE  /\ {i, j} \subseteq Rows(z, "equipment") \cup Rows(z, "place") => z[i].body.id # z[j].body.id
               /\ z[i].op = NoWork \/ z[i].op # z[j].op
    <2>1. z[i] = h[i] /\ z[j] = h[j] /\ i \in DOMAIN h /\ j \in DOMAIN h
      BY <1>2
    <2>2. {i, j} \subseteq Rows(z, "equipment") \cup Rows(z, "place") =>
             {i, j} \subseteq Rows(h, "equipment") \cup Rows(h, "place")
      BY <2>1 DEF Rows
    <2>3. QED
      BY <1>8, <2>1, <2>2 DEF HistoryTrue
  <1>9. ASSUME NEW i \in 1..(n + 1), NEW j \in 1..(n + 1), i # j
        PROVE  /\ {i, j} \subseteq Rows(z, "equipment") \cup Rows(z, "place") => z[i].body.id # z[j].body.id
               /\ z[i].op = NoWork \/ z[i].op # z[j].op
    <2>1. CASE i \in 1..n /\ j \in 1..n
      BY <1>8, <1>9, <2>1
    <2>2. CASE i \in 1..n /\ j = n + 1
      BY <1>7, <2>2
    <2>3. CASE i = n + 1 /\ j \in 1..n
      BY <1>7, <2>3
    <2>4. QED
      BY <1>5, <1>9, <2>1, <2>2, <2>3
  <1>10. ASSUME NEW i \in 1..(n + 1), z[i].kind \in {"propose", "finding"}
         PROVE  z[i].entitled /\ TrueOf(SubSeq(z, 1, i - 1), z[i])
    <2>1. CASE i \in 1..n
      <3>1. z[i] = h[i] /\ SubSeq(z, 1, i - 1) = SubSeq(h, 1, i - 1)
        BY <1>2, <1>3, <2>1
      <3>2. i \in Rows(h, "propose") \cup Rows(h, "finding")
        BY <1>2, <1>10, <2>1, <3>1 DEF Rows
      <3>3. QED
        BY <3>1, <3>2 DEF HistoryTrue
    <2>2. CASE i = n + 1
      BY <1>2, <1>4, <1>10, <2>2 DEF NextRow
    <2>3. QED
      BY <1>5, <2>1, <2>2
  <1>11. \A i \in Rows(z, "propose") \cup Rows(z, "finding") :
            z[i].entitled /\ TrueOf(SubSeq(z, 1, i - 1), z[i])
    BY <1>2, <1>10 DEF Rows
  <1>12. QED
    BY <1>2, <1>6, <1>9, <1>11 DEF HistoryTrue

-----------------------------------------------------------------------------
\* A row is prepared.
LEMMA Prepares ==
  ASSUME BindingInv, NEW r \in Registries, NEW kind, NEW body, NEW op, NEW at,
         prepare_row(r, kind, body, op, at), UNCHANGED <<history, intents, told, access>>,
         at \in {"captured", "unguarded"}, op = NoWork <=> at = "unguarded",
         kind \in {"equipment", "place"} => body.id \notin identities(history),
         kind = "finding" => body.finding.generation = revision(history),
         kind \in {"propose", "finding"} =>
            op # NoWork /\ TrueOf(history, [sequence |-> Len(history) + 1, revision |-> revision(history),
                                            op |-> op, kind |-> kind, body |-> body, entitled |-> FALSE]),
         op # NoWork => /\ op \in Operations /\ intents[op] # NoWork /\ receipt(op) = {}
                        /\ body.binding = intents[op].binding
  PROVE  BindingInv'
  <1>1. PICK row : row = [sequence |-> Len(history) + 1, revision |-> revision(history),
                          op |-> op, kind |-> kind, body |-> body, entitled |-> FALSE]
    OBVIOUS
  <1>2. PICK w : w = [at |-> at, op |-> op, guard |-> history,
                      captured |-> IF at = "captured" THEN access.version ELSE 0, row |-> row]
    OBVIOUS
  <1>3. work' = [work EXCEPT ![r] = w]
    BY <1>1, <1>2 DEF prepare_row
  <1>4. /\ row.sequence = Len(history) + 1 /\ row.revision = revision(history) /\ row.op = op
        /\ row.kind = kind /\ row.body = body
        /\ w.at = at /\ w.op = op /\ w.guard = history /\ w.row = row
        /\ at = "captured" => w.captured = access.version
    BY <1>1, <1>2
  <1>5. access.version \in Nat
    BY DEF BindingInv
  <1>6. replay_finding(row)
    BY <1>4 DEF replay_finding
  <1>7. row = [sequence |-> row.sequence, revision |-> row.revision, op |-> row.op,
               kind |-> row.kind, body |-> row.body, entitled |-> row.entitled]
    BY <1>1
  <1>8. w = [at |-> w.at, op |-> w.op, guard |-> w.guard, captured |-> w.captured, row |-> w.row]
    BY <1>2
  <1>9. op # NoWork =>
          /\ w.captured \in Nat /\ w.captured <= access.version
          /\ \A i \in ReceiptIn(history, op) : history[i].body.binding = intents[op].binding
    BY <1>4, <1>5 DEF ReceiptIn, receipt
  <1>10. kind \in {"propose", "finding"} => op # NoWork /\ TrueOf(history, row)
    BY <1>1
  <1>11. WorkTrue(w, history, intents, access)
    BY <1>4, <1>6, <1>7, <1>8, <1>9, <1>10 DEF WorkTrue
  <1>12. DOMAIN work' = Registries /\ \A q \in Registries : work'[q] = w \/ work'[q] = work[q]
    BY <1>3 DEF BindingInv
  <1>13. \A q \in Registries : work'[q] # NoWork => WorkTrue(work'[q], history, intents, access)
    BY <1>11, <1>12 DEF BindingInv
  <1>14. QED
    BY <1>12, <1>13 DEF BindingInv

\* The work of a process is put down or changed, nothing else.
LEMMA WorkMoves ==
  ASSUME BindingInv, NEW r \in Registries, NEW w, work' = [work EXCEPT ![r] = w],
         w # NoWork => WorkTrue(w, history, intents, access),
         UNCHANGED <<history, intents, told, access>>
  PROVE  BindingInv'
  <1>1. DOMAIN work' = Registries /\ \A q \in Registries : work'[q] = w \/ work'[q] = work[q]
    BY DEF BindingInv
  <1>2. \A q \in Registries : work'[q] # NoWork => WorkTrue(work'[q], history, intents, access)
    BY <1>1 DEF BindingInv
  <1>3. QED
    BY <1>1, <1>2 DEF BindingInv

\* An operation is told of a row that is its receipt.
LEMMA Tells ==
  ASSUME BindingInv, NEW o \in Operations, NEW i \in ReceiptIn(history, o), intents[o] # NoWork,
         history[i].body.binding = intents[o].binding, told' = [told EXCEPT ![o] = i],
         NEW r \in Registries, work' = work \/ work' = [work EXCEPT ![r] = NoWork],
         UNCHANGED <<history, intents, access>>
  PROVE  BindingInv'
  <1>1. DOMAIN told' = Operations /\ \A q \in Operations : told'[q] = told[q] \/ (q = o /\ told'[q] = i)
    BY DEF BindingInv
  <1>2. \A q \in Operations : ToldTrue(told'[q], history, q, intents)
    BY <1>1 DEF BindingInv, ToldTrue
  <1>3. DOMAIN work' = Registries /\ \A q \in Registries : work'[q] = NoWork \/ work'[q] = work[q]
    BY DEF BindingInv
  <1>4. \A q \in Registries : work'[q] # NoWork => WorkTrue(work'[q], history, intents, access)
    BY <1>3 DEF BindingInv
  <1>5. QED
    BY <1>1, <1>2, <1>3, <1>4 DEF BindingInv


\* An operation identity is used for the first time.
LEMMA Intends ==
  ASSUME BindingInv, NEW o \in Operations, NEW kind, NEW b, intend(o, kind, b)
  PROVE  BindingInv'
  <1>1. PICK x : x = [kind |-> kind, binding |-> b, revision |-> revision(history)]
    OBVIOUS
  <1>2. /\ intents[o] = NoWork /\ intents' = [intents EXCEPT ![o] = x]
        /\ UNCHANGED <<history, work, told, access>>
    BY <1>1 DEF intend
  <1>3. DOMAIN intents' = Operations /\ \A q \in Operations : intents[q] # NoWork => intents'[q] = intents[q]
    BY <1>2 DEF BindingInv
  <1>4. PICK t : t = intents'
    OBVIOUS
  <1>5. ASSUME NEW w, WorkTrue(w, history, intents, access) PROVE WorkTrue(w, history, t, access)
    <2>1. w.op # NoWork => w.op \in Operations /\ intents[w.op] # NoWork
      BY <1>5 DEF WorkTrue
    <2>2. w.op # NoWork => t[w.op] = intents[w.op]
      BY <1>3, <1>4, <2>1
    <2>3. QED
      BY <1>5, <2>2 DEF WorkTrue
  <1>6. \A q \in Operations : ToldTrue(told[q], history, q, t)
    BY <1>3, <1>4 DEF BindingInv, ToldTrue
  <1>7. \A q \in Registries : work[q] # NoWork => WorkTrue(work[q], history, t, access)
    BY <1>5 DEF BindingInv
  <1>8. /\ history' = history /\ work' = work /\ told' = told /\ access' = access
        /\ DOMAIN t = Operations
    BY <1>2, <1>3, <1>4
  <1>9. QED
    BY <1>4, <1>6, <1>7, <1>8 DEF BindingInv

\* The access history grows, or the credential expires.
LEMMA AccessMoves ==
  ASSUME BindingInv, AccessChanges \/ Expires
  PROVE  BindingInv'
  <1>1. PICK version, revoked, expired :
          /\ access' = [version |-> version, revoked |-> revoked, expired |-> expired]
          /\ version \in Nat /\ access.version <= version
          /\ version = access.version => revoked = access.revoked
    <2>1. access.version \in Nat
      BY DEF BindingInv
    <2>2. PICK v : v = access.version + 1
      OBVIOUS
    <2>3. access = [version |-> access.version, revoked |-> access.revoked, expired |-> access.expired]
      BY DEF BindingInv
    <2>4. CASE AccessChanges
      <3>1. PICK x : access' = [access EXCEPT !.version = v, !.revoked = x]
        BY <2>2, <2>4 DEF AccessChanges
      <3>2. access' = [version |-> v, revoked |-> x, expired |-> access.expired]
        BY <2>3, <3>1
      <3>3. v \in Nat /\ access.version <= v /\ v # access.version
        BY <2>1, <2>2
      <3>4. QED
        BY <3>2, <3>3
    <2>5. CASE Expires
      <3>1. access' = [version |-> access.version, revoked |-> access.revoked, expired |-> TRUE]
        BY <2>3, <2>5 DEF Expires
      <3>2. access.version <= access.version
        BY <2>1
      <3>3. QED
        BY <2>1, <3>1, <3>2
    <2>6. QED
      BY <2>4, <2>5
  <1>2. PICK acc : acc = [version |-> version, revoked |-> revoked, expired |-> expired] /\ access' = acc
    BY <1>1
  <1>3. acc.version = version /\ acc.revoked = revoked /\ acc.expired = expired
    BY <1>2
  <1>4. ASSUME NEW w, WorkTrue(w, history, intents, access) PROVE WorkTrue(w, history, intents, acc)
    <2>1. access.version \in Nat
      BY DEF BindingInv
    <2>2. /\ w.op # NoWork => w.captured \in Nat /\ w.captured <= access.version
          /\ w.op = NoWork <=> w.at = "unguarded"
          /\ w.at = "guarded" /\ access.version = w.captured => ~access.revoked
      BY <1>4 DEF WorkTrue
    <2>3. w.op # NoWork => w.captured <= acc.version
      BY <1>1, <1>3, <2>1, <2>2
    <2>4. w.at = "guarded" /\ acc.version = w.captured => ~acc.revoked
      BY <1>1, <1>3, <2>1, <2>2
    <2>5. QED
      BY <1>4, <2>3, <2>4 DEF WorkTrue
  <1>5. UNCHANGED <<history, work, intents, told>>
    BY DEF AccessChanges, Expires
  <1>6. \A q \in Registries : work[q] # NoWork => WorkTrue(work[q], history, intents, acc)
    BY <1>4 DEF BindingInv
  <1>7. acc.version \in Nat /\ acc = [version |-> acc.version, revoked |-> acc.revoked, expired |-> acc.expired]
    BY <1>1, <1>2, <1>3
  <1>8. QED
    BY <1>2, <1>5, <1>6, <1>7 DEF BindingInv

\* A submission enters with its credential.
LEMMA Enters ==
  ASSUME BindingInv, NEW r \in Registries, authority(r)
  PROVE  BindingInv'
  <1>1. PICK v : v = work[r]
    OBVIOUS
  <1>2. /\ v # NoWork /\ v.at = "captured" /\ ~access.revoked
        /\ work' = [work EXCEPT ![r] = [v EXCEPT !.at = "guarded"]]
        /\ UNCHANGED <<history, intents, told, access>>
    BY <1>1 DEF authority
  <1>3. WorkTrue(v, history, intents, access)
    BY <1>1, <1>2 DEF BindingInv
  <1>4. PICK w : w = [at |-> "guarded", op |-> v.op, guard |-> v.guard, captured |-> v.captured, row |-> v.row]
    OBVIOUS
  <1>5. work' = [work EXCEPT ![r] = w]
    <2>1. v = [at |-> v.at, op |-> v.op, guard |-> v.guard, captured |-> v.captured, row |-> v.row]
      BY <1>3 DEF WorkTrue
    <2>2. [v EXCEPT !.at = "guarded"] = w
      BY <1>4, <2>1
    <2>3. QED
      BY <1>2, <2>2
  <1>6. w.at = "guarded" /\ w.op = v.op /\ w.guard = v.guard /\ w.captured = v.captured /\ w.row = v.row
    BY <1>4
  <1>7. w = [at |-> w.at, op |-> w.op, guard |-> w.guard, captured |-> w.captured, row |-> w.row]
    BY <1>4, <1>6
  <1>8. v.op # NoWork
    BY <1>2, <1>3 DEF WorkTrue
  <1>9. WorkTrue(w, history, intents, access)
    BY <1>2, <1>3, <1>6, <1>7, <1>8 DEF WorkTrue
  <1>10. QED
    BY <1>2, <1>5, <1>9, WorkMoves

\* A row is committed.
LEMMA CommitsRow ==
  ASSUME BindingInv, NEW r \in Registries, submitted(r)
  PROVE  BindingInv'
  <1>1. PICK w : w = work[r]
    OBVIOUS
  <1>2. PICK entitled : entitled = (w.op = NoWork \/ (~access.revoked /\ ~access.expired))
    OBVIOUS
  <1>3. PICK row : row = [w.row EXCEPT !.entitled = entitled]
    OBVIOUS
  <1>4. /\ w # NoWork /\ w.at \in {"guarded", "unguarded"}
        /\ w.op = NoWork \/ receipt(w.op) = {}
        /\ history = w.guard
        /\ w.at = "guarded" => access.version = w.captured /\ ~access.expired
        /\ history' = Append(history, row)
        /\ work' = [work EXCEPT ![r] = NoWork]
        /\ (w.op # NoWork /\ told' = [told EXCEPT ![w.op] = Len(history')]) \/ told' = told
        /\ UNCHANGED <<intents, access>>
    BY <1>1, <1>2, <1>3 DEF submitted, Intact
  <1>5. WorkTrue(w, history, intents, access)
    BY <1>1, <1>4 DEF BindingInv
  <1>6. entitled
    BY <1>2, <1>4, <1>5 DEF WorkTrue
  <1>7. /\ row.sequence = w.row.sequence /\ row.revision = w.row.revision /\ row.op = w.row.op
        /\ row.kind = w.row.kind /\ row.body = w.row.body /\ row.entitled = entitled
    <2>1. w.row = [sequence |-> w.row.sequence, revision |-> w.row.revision, op |-> w.row.op,
                   kind |-> w.row.kind, body |-> w.row.body, entitled |-> w.row.entitled]
      BY <1>5 DEF WorkTrue
    <2>2. QED
      BY <1>3, <2>1
  <1>8. NextRow(history, row)
    <2>1. /\ row.sequence = Len(history) + 1 /\ row.revision = revision(history) /\ row.op = w.op
          /\ row.kind \in {"equipment", "place"} => row.body.id \notin identities(history)
      BY <1>4, <1>5, <1>7 DEF WorkTrue
    <2>2. replay_finding(row)
      BY <1>5, <1>7 DEF WorkTrue, replay_finding
    <2>3. row.kind \in {"propose", "finding"} => TrueOf(history, row)
      BY <1>4, <1>5, <1>7 DEF WorkTrue, TrueOf
    <2>4. row.op = NoWork \/ ReceiptIn(history, row.op) = {}
      BY <1>4, <2>1 DEF ReceiptIn, receipt
    <2>5. QED
      BY <1>6, <1>7, <2>1, <2>2, <2>3, <2>4 DEF NextRow
  <1>9. PICK z : z = history'
    OBVIOUS
  <1>10. Longer(history, row, z)
    BY <1>4, <1>9, LongerAppended DEF BindingInv
  <1>11. HistoryTrue(z) /\ HistorySeq(z)
    BY <1>8, <1>10, HistoryGrows DEF BindingInv, Longer
  <1>12. PICK n : n = Len(history)
    OBVIOUS
  <1>13. /\ n \in Nat /\ DOMAIN history = 1..n /\ DOMAIN z = 1..(n + 1) /\ Len(z) = n + 1
         /\ \A i \in 1..n : z[i] = history[i]
         /\ z[n + 1] = row
    <2>1. DOMAIN z = 1..(n + 1) /\ n \in Nat
      BY <1>10, <1>12 DEF Longer
    <2>2. Len(z) = n + 1
      BY <1>11, <2>1 DEF HistorySeq
    <2>3. QED
      BY <1>10, <1>12, <2>1, <2>2 DEF Longer
  <1>14. w.op # NoWork => w.op \in Operations /\ intents[w.op] # NoWork /\ row.body.binding = intents[w.op].binding
    BY <1>5, <1>7 DEF WorkTrue
  <1>15. row.op = w.op
    BY <1>5, <1>7 DEF WorkTrue
  <1>16. ASSUME NEW o, o # NoWork, \A i \in ReceiptIn(history, o) : history[i].body.binding = intents[o].binding
         PROVE  \A i \in ReceiptIn(z, o) : z[i].body.binding = intents[o].binding
    <2>1. SUFFICES ASSUME NEW i \in 1..(n + 1), z[i].op = o PROVE z[i].body.binding = intents[o].binding
      BY <1>13 DEF ReceiptIn
    <2>2. CASE i \in 1..n
      BY <1>13, <1>16, <2>1, <2>2 DEF ReceiptIn
    <2>3. CASE i = n + 1
      BY <1>13, <1>14, <1>15, <1>16, <2>1, <2>3
    <2>4. QED
      BY <1>13, <2>2, <2>3
  <1>17. ASSUME NEW v, WorkTrue(v, history, intents, access) PROVE WorkTrue(v, z, intents, access)
    <2>1. v.op # NoWork => \A i \in ReceiptIn(history, v.op) : history[i].body.binding = intents[v.op].binding
      BY <1>17 DEF WorkTrue
    <2>2. v.op # NoWork => \A i \in ReceiptIn(z, v.op) : z[i].body.binding = intents[v.op].binding
      BY <1>16, <2>1
    <2>3. QED
      BY <1>17, <2>2 DEF WorkTrue
  <1>18. DOMAIN work' = Registries /\ \A q \in Registries : work'[q] = NoWork \/ work'[q] = work[q]
    BY <1>4 DEF BindingInv
  <1>19. \A q \in Registries : work'[q] # NoWork => WorkTrue(work'[q], z, intents, access)
    BY <1>17, <1>18 DEF BindingInv
  <1>20. ASSUME NEW o \in Operations, NEW t, ToldTrue(t, history, o, intents) PROVE ToldTrue(t, z, o, intents)
    <2>1. \A i \in ReceiptIn(history, o) : i \in ReceiptIn(z, o) /\ z[i] = history[i]
      <3>1. \A i \in 1..n : i \in 1..(n + 1)
        BY <1>13
      <3>2. QED
        BY <1>13, <3>1 DEF ReceiptIn
    <2>2. QED
      BY <1>20, <2>1 DEF ToldTrue
  <1>21. w.op # NoWork => ToldTrue(n + 1, z, w.op, intents)
    <2>1. n + 1 \in 1..(n + 1)
      BY <1>13
    <2>2. n + 1 \in ReceiptIn(z, w.op)
      BY <1>13, <1>15, <2>1 DEF ReceiptIn
    <2>3. QED
      BY <1>13, <1>14, <2>2 DEF ToldTrue
  <1>22. DOMAIN told' = Operations /\ \A q \in Operations : ToldTrue(told'[q], z, q, intents)
    <2>1. DOMAIN told = Operations /\ \A q \in Operations : ToldTrue(told[q], z, q, intents)
      BY <1>20 DEF BindingInv
    <2>2. CASE w.op # NoWork /\ told' = [told EXCEPT ![w.op] = Len(z)]
      BY <1>13, <1>21, <2>1, <2>2
    <2>3. CASE told' = told
      BY <2>1, <2>3
    <2>4. QED
      BY <1>4, <1>9, <2>2, <2>3
  <1>23. intents' = intents /\ access' = access
    BY <1>4
  <1>24. QED
    BY <1>9, <1>11, <1>18, <1>19, <1>22, <1>23 DEF BindingInv

\* Another process committed the same request.
LEMMA CommittedBefore ==
  ASSUME BindingInv, NEW r \in Registries, submitted_before(r)
  PROVE  BindingInv'
  <1>1. PICK w : w = work[r]
    OBVIOUS
  <1>2. PICK i \in receipt(w.op) :
          /\ w # NoWork /\ w.at = "guarded" /\ told' = [told EXCEPT ![w.op] = i]
          /\ work' = [work EXCEPT ![r] = NoWork] /\ UNCHANGED <<history, intents, access>>
    BY <1>1 DEF submitted_before
  <1>3. WorkTrue(w, history, intents, access)
    BY <1>1, <1>2 DEF BindingInv
  <1>4. w.op # NoWork
    BY <1>2, <1>3 DEF WorkTrue
  <1>5. /\ i \in ReceiptIn(history, w.op) /\ w.op \in Operations /\ intents[w.op] # NoWork
        /\ history[i].body.binding = intents[w.op].binding
    BY <1>3, <1>4 DEF WorkTrue, receipt, ReceiptIn
  <1>6. QED
    BY <1>2, <1>5, Tells

\* A submission is answered with its receipt.
LEMMA Reconciles ==
  ASSUME BindingInv, NEW r \in Registries, NEW o \in Operations, reconcile_proposal(r, o)
  PROVE  BindingInv'
  <1>1. PICK i \in receipt(o) :
          /\ intents[o] # NoWork /\ history[i].body.binding = intents[o].binding
          /\ told' = [told EXCEPT ![o] = i] /\ UNCHANGED <<history, work, intents, access>>
    BY DEF reconcile_proposal
  <1>2. i \in ReceiptIn(history, o) /\ work' = work
    BY <1>1 DEF receipt, ReceiptIn
  <1>3. QED
    BY <1>1, <1>2, Tells

\* Equipment, a place, a point or a retirement is prepared.
LEMMA Records ==
  ASSUME BindingInv, NEW r \in Registries, NEW kind \in {"equipment", "place", "point", "retire"},
         NEW body, prepare_row(r, kind, body, NoWork, "unguarded"),
         UNCHANGED <<history, intents, told, access>>,
         kind \in {"equipment", "place"} => body.id \notin identities(history)
  PROVE  BindingInv'
  <1>1. kind \notin {"propose", "finding"}
    OBVIOUS
  <1>2. PICK op, at : op = NoWork /\ at = "unguarded"
    OBVIOUS
  <1>3. prepare_row(r, kind, body, op, at)
    BY <1>2
  <1>4. QED
    BY <1>1, <1>2, <1>3, Prepares

\* A proposal or a finding is prepared.
LEMMA SubmitsOperation ==
  ASSUME BindingInv, NEW r \in Registries, NEW o \in Operations, NEW kind \in {"propose", "finding"},
         NEW body, Submittable(r, o, kind), prepare_row(r, kind, body, o, "captured"),
         body.binding = intents[o].binding,
         kind = "finding" => /\ body.finding.generation = revision(history)
                             /\ intents[o].binding \in bindings(history)
  PROVE  BindingInv'
  <1>1. /\ intents[o] # NoWork /\ receipt(o) = {} /\ resolve(history, body.binding)
        /\ UNCHANGED <<history, intents, told, access>>
    BY DEF Submittable
  <1>2. o # NoWork
    BY BindingAssumption
  <1>3. PICK row : row = [sequence |-> Len(history) + 1, revision |-> revision(history),
                          op |-> o, kind |-> kind, body |-> body, entitled |-> FALSE]
    OBVIOUS
  <1>4. row.revision = revision(history) /\ row.kind = kind /\ row.body = body
    BY <1>3
  <1>5. TrueOf(history, row)
    BY <1>1, <1>4 DEF TrueOf, resolve
  <1>6. PICK at : at = "captured"
    OBVIOUS
  <1>7. kind \notin {"equipment", "place"}
    OBVIOUS
  <1>8. TrueOf(history, [sequence |-> Len(history) + 1, revision |-> revision(history),
                          op |-> o, kind |-> kind, body |-> body, entitled |-> FALSE])
    BY <1>3, <1>5
  <1>9. prepare_row(r, kind, body, o, at)
    BY <1>6
  <1>10. QED
    BY <1>1, <1>2, <1>6, <1>7, <1>8, <1>9, Prepares

\* No step breaks it.
LEMMA BindingStep == BindingInv /\ [BindingNext]_bindingVars => BindingInv'
  <1>1. SUFFICES ASSUME BindingInv, [BindingNext]_bindingVars PROVE BindingInv'
    OBVIOUS
  <1>2. CASE UNCHANGED bindingVars
    BY <1>1, <1>2 DEF bindingVars, BindingInv
  <1>3. ASSUME NEW r \in Registries, NEW id, NEW a, record_equipment(r, id, a) PROVE BindingInv'
    <2>1. PICK body, kind : body = [id |-> id, address |-> a] /\ kind = "equipment"
      OBVIOUS
    <2>2. /\ body.id \notin identities(history) /\ prepare_row(r, kind, body, NoWork, "unguarded")
          /\ UNCHANGED <<history, intents, told, access>>
      BY <1>3, <2>1 DEF record_equipment
    <2>3. QED
      BY <1>1, <2>1, <2>2, Records
  <1>4. ASSUME NEW r \in Registries, NEW id, record_place(r, id) PROVE BindingInv'
    <2>1. PICK body, kind : body = [id |-> id] /\ kind = "place"
      OBVIOUS
    <2>2. /\ body.id \notin identities(history) /\ prepare_row(r, kind, body, NoWork, "unguarded")
          /\ UNCHANGED <<history, intents, told, access>>
      BY <1>4, <2>1 DEF record_place
    <2>3. QED
      BY <1>1, <2>1, <2>2, Records
  <1>5. ASSUME NEW r \in Registries, NEW id, retire(r, id) PROVE BindingInv'
    <2>1. PICK body, kind : body = [id |-> id, address |-> address_of(history, id)] /\ kind = "retire"
      OBVIOUS
    <2>2. prepare_row(r, kind, body, NoWork, "unguarded") /\ UNCHANGED <<history, intents, told, access>>
      BY <1>5, <2>1 DEF retire
    <2>3. QED
      BY <1>1, <2>1, <2>2, Records
  <1>6. ASSUME NEW r \in Registries, NEW p, record_point(r, p) PROVE BindingInv'
    <2>1. PICK body, kind : body = [point |-> p] /\ kind = "point"
      OBVIOUS
    <2>2. prepare_row(r, kind, body, NoWork, "unguarded") /\ UNCHANGED <<history, intents, told, access>>
      BY <1>6, <2>1 DEF record_point
    <2>3. QED
      BY <1>1, <2>1, <2>2, Records
  <1>7. ASSUME NEW r \in Registries, NEW o \in Operations, submit_proposal(r, o) PROVE BindingInv'
    <2>1. PICK body, kind : body = [binding |-> intents[o].binding] /\ kind = "propose"
      OBVIOUS
    <2>2. Submittable(r, o, kind) /\ prepare_row(r, kind, body, o, "captured")
      BY <1>7, <2>1 DEF submit_proposal
    <2>3. QED
      BY <1>1, <2>1, <2>2, SubmitsOperation
  <1>8. ASSUME NEW r \in Registries, NEW o \in Operations, emit_finding_operation(r, o) PROVE BindingInv'
    <2>1. PICK b, kind : b = intents[o].binding /\ kind = "finding"
      OBVIOUS
    <2>2. PICK body : body = [binding |-> b, finding |-> for_binding(b, revision(history))]
      OBVIOUS
    <2>3. Submittable(r, o, kind) /\ b \in bindings(history) /\ prepare_row(r, kind, body, o, "captured")
      BY <1>8, <2>1, <2>2 DEF emit_finding_operation
    <2>4. body.binding = b /\ body.finding.generation = revision(history)
      BY <2>2 DEF for_binding
    <2>5. QED
      BY <1>1, <2>1, <2>3, <2>4, SubmitsOperation
  <1>9. ASSUME NEW r \in Registries, give_up(r) PROVE BindingInv'
    <2>1. PICK w : w = NoWork
      OBVIOUS
    <2>2. work' = [work EXCEPT ![r] = w] /\ UNCHANGED <<history, intents, told, access>>
      BY <1>9, <2>1 DEF give_up
    <2>3. QED
      BY <1>1, <2>1, <2>2, WorkMoves
  <1>10. ASSUME NEW o \in Operations, NEW b,
                propose_with_credential(o, b) \/ import_with_credential(o, b) \/ emit_finding(o, b)
         PROVE  BindingInv'
    <2>1. PICK kind, c : intend(o, kind, c)
      BY <1>10 DEF propose_with_credential, import_with_credential, emit_finding
    <2>2. QED
      BY <1>1, <2>1, Intends
  <1>11. CASE AccessChanges \/ Expires
    BY <1>1, <1>11, AccessMoves
  <1>12. QED
    BY <1>1, <1>2, <1>3, <1>4, <1>5, <1>6, <1>7, <1>8, <1>9, <1>10, <1>11,
       Enters, CommitsRow, CommittedBefore, Reconciles DEF BindingNext

\* It holds of what an earlier run left.
LEMMA BindingInitially == BindingInit => BindingInv
  <1>1. SUFFICES ASSUME BindingInit PROVE BindingInv
    OBVIOUS
  <1>2. HistoryTrue(history) /\ HistorySeq(history)
    BY <1>1, BegunAssumption DEF BindingInit, HistorySeq
  <1>3. /\ DOMAIN work = Registries /\ DOMAIN intents = Operations /\ DOMAIN told = Operations
        /\ \A r \in Registries : work[r] = NoWork
        /\ \A o \in Operations : told[o] = 0
    BY <1>1 DEF BindingInit
  <1>4. /\ access.version \in Nat
        /\ access = [version |-> access.version, revoked |-> access.revoked, expired |-> access.expired]
    BY <1>1 DEF BindingInit
  <1>5. \A o \in Operations : ToldTrue(told[o], history, o, intents)
    BY <1>3 DEF ToldTrue
  <1>6. QED
    BY <1>2, <1>3, <1>4, <1>5 DEF BindingInv

\* Whatever registries interleave, and whatever becomes of the credentials meanwhile, the
\* history can be replayed, an identity is recorded once, an operation is committed once
\* and reported at its own row, and every proposal and finding was true, and its credential
\* live, when it was committed.
THEOREM BindingsTrue == BindingSpec => []BindingTruth
  <1>1. BindingInv => BindingTruth
    BY DEF BindingInv, BindingTruth, ToldTrue, ReceiptIn, receipt
  <1>2. QED
    BY <1>1, BindingInitially, BindingStep, PTL DEF BindingSpec

=============================================================================
