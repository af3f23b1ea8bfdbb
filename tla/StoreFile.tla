------------------------------ MODULE StoreFile ------------------------------
(***************************************************************************)
(* Creation, opening and admission of the database file                    *)
(* (src/src/storage/sqlite/admission.rs, connection.rs and the handle      *)
(* budget of mod.rs).                                                      *)
(*                                                                         *)
(* A fresh store is built under a private name and published by a hard     *)
(* link that never clobbers.  A handle remembers the file and the store    *)
(* identity it was opened on; every later connection is by path again, and *)
(* an operator may have put another file there.                            *)
(***************************************************************************)
EXTENDS Naturals, Sequences, FiniteSets

CONSTANTS
    Openers,            \* processes that open the database path
    MAX_CONNECTIONS,    \* StoreBounds.max_connections
    MaxFiles,           \* bound on the files that ever exist
    NoFile              \* the path or a private name is unused

ASSUME StoreFileAssumption ==
    /\ MAX_CONNECTIONS \in Nat \ {0}
    /\ MaxFiles \in Nat
    /\ NoFile \notin Nat

VARIABLES
    disk,       \* the files by inode: identity, schema notes, links
    leaf,       \* the inode at the database path
    opener,     \* where each process is in open or in a store operation
    handle,     \* what each open store remembers, and its handle count
    lock,       \* which process holds each file's writer lock
    misplaced,  \* processes that wrote into another store than they opened
    replaced    \* files the operator took from the path

storeVars == <<disk, leaf, opener, handle, lock, misplaced, replaced>>

Idle == [at |-> "idle", ino |-> NoFile, stamp |-> NoFile]
NoStore == [stamp |-> NoFile, identity |-> NoFile, handles |-> 0]

\* No database, or one of schema 0001 or 0002 to be upgraded on open, which
\* is at the path already.
StoreInit ==
    /\ \E old \in {0, 1, 2} :
          /\ disk = IF old = 0 THEN <<>> ELSE <<[identity |-> 1, notes |-> old, links |-> 1]>>
          /\ leaf = IF old = 0 THEN NoFile ELSE 1
    /\ opener = [p \in Openers |-> Idle]
    /\ handle = [p \in Openers |-> NoStore]
    /\ lock = [i \in 1 .. MaxFiles |-> NoFile]
    /\ misplaced = {}
    /\ replaced = {}

Goes(p, at, ino, stamp) ==
    opener' = [opener EXCEPT ![p] = [at |-> at, ino |-> ino, stamp |-> stamp]]

\* file_stamp answers for a single-link file only.
Stampable == leaf # NoFile /\ disk[leaf].links = 1

\* validate: the identity of a store of the current schema; a supported
\* predecessor has none.
validate(i) == IF disk[i].notes >= 3 THEN disk[i].identity ELSE NoFile

-----------------------------------------------------------------------------
\* open: an existing leaf is opened, else a private file is reserved.
open(p) ==
    /\ opener[p] = Idle /\ handle[p] = NoStore
    /\ IF leaf # NoFile
         THEN Goes(p, "existing", NoFile, NoFile)
         ELSE Goes(p, "private", NoFile, NoFile)
    /\ UNCHANGED <<disk, leaf, handle, lock, misplaced, replaced>>

\* PrivateFile::reserve makes the file new; dropping it removes its last link.
Reserved == [identity |-> Len(disk) + 1, notes |-> 3, links |-> 1]
Dropped(i) == [disk EXCEPT ![i].links = 0]

\* initialize: all migrations, identity and validation in one transaction under
\* the private name.
initialize(p) ==
    /\ opener[p].at = "private"
    /\ Len(disk) < MaxFiles
    /\ disk' = Append(disk, Reserved)
    /\ Goes(p, "publish", Len(disk'), NoFile)
    /\ UNCHANGED <<leaf, handle, lock, misplaced, replaced>>

\* Mutant: the private file is renamed over whatever is at the path.
publish_Clobbers(p) ==
    /\ opener[p].at = "publish"
    /\ leaf' = opener[p].ino
    /\ disk' = [disk EXCEPT ![opener[p].ino].links = 2]
    /\ Goes(p, "unlink", opener[p].ino, NoFile)
    /\ UNCHANGED <<handle, lock, misplaced, replaced>>

\* hard_link publishes if the path is free; else the winner's file is opened
\* and the private one dropped.
publish(p) ==
    /\ opener[p].at = "publish"
    /\ IF leaf = NoFile
         THEN /\ leaf' = opener[p].ino
              /\ disk' = [disk EXCEPT ![opener[p].ino].links = 2]
              /\ Goes(p, "unlink", opener[p].ino, NoFile)
         ELSE /\ disk' = Dropped(opener[p].ino)
              /\ Goes(p, "existing", NoFile, NoFile)
              /\ UNCHANGED leaf
    /\ UNCHANGED <<handle, lock, misplaced, replaced>>

\* The private name is removed and make_store stamps the file at the path.
unlink(p) ==
    /\ opener[p].at = "unlink"
    /\ disk' = [disk EXCEPT ![opener[p].ino].links = 1]
    /\ Goes(p, "made", opener[p].ino, NoFile)
    /\ UNCHANGED <<leaf, handle, lock, misplaced, replaced>>

\* make_store: the stamp is read from the path now, the identity is the one
\* that was validated.  No handle without a stamp; an existing store is also
\* reported on through the new handle.
make_store(p) ==
    /\ opener[p].at \in {"made", "reopened"}
    /\ Goes(p, "idle", NoFile, NoFile)
    /\ handle' = IF Stampable /\ (opener[p].at = "reopened" =>
                                    validate(leaf) = disk[opener[p].ino].identity)
                   THEN [handle EXCEPT ![p] = [stamp |-> leaf, handles |-> 1,
                                               identity |-> disk[opener[p].ino].identity]]
                   ELSE handle
    /\ UNCHANGED <<disk, leaf, lock, misplaced, replaced>>

\* existing: stamp the path, connect, validate in a snapshot.
existing(p) ==
    /\ opener[p].at = "existing"
    /\ Stampable
    /\ Goes(p, "connected", leaf, leaf)
    /\ UNCHANGED <<disk, leaf, handle, lock, misplaced, replaced>>

\* BEGIN IMMEDIATE, revalidate, and upgrade a predecessor if the path is still
\* the stamped file.
upgrade(p) ==
    LET o == opener[p]
    IN  /\ o.at = "connected"
        /\ lock[o.ino] = NoFile
        /\ validate(o.ino) = NoFile => leaf = o.stamp
        /\ lock' = [lock EXCEPT ![o.ino] = p]
        /\ Goes(p, "upgraded", o.ino, o.stamp)
        /\ UNCHANGED <<disk, leaf, handle, misplaced, replaced>>

\* The commit of the upgrade, after the stamp was compared again.  Its outcome
\* may be unknown to the caller, who then reopens.
upgrade_commit(p) ==
    LET o == opener[p]
    IN  /\ o.at = "upgraded"
        /\ leaf = o.stamp
        /\ disk' = [disk EXCEPT ![o.ino].notes = IF @ < 3 THEN 3 ELSE @]
        /\ lock' = [lock EXCEPT ![o.ino] = NoFile]
        /\ \E known \in BOOLEAN :
              Goes(p, IF known THEN "reopened" ELSE "idle", IF known THEN o.ino ELSE NoFile, NoFile)
        /\ UNCHANGED <<leaf, handle, misplaced, replaced>>

\* Any refusal on the way drops the connection and the private file.
refuse(p) ==
    LET o == opener[p]
    IN  /\ o.at \in {"existing", "connected", "upgraded", "made", "reopened", "publish", "admitting", "admitted"}
        /\ disk' = IF o.at = "publish" THEN Dropped(o.ino) ELSE disk
        /\ lock' = [i \in DOMAIN lock |-> IF lock[i] = p THEN NoFile ELSE lock[i]]
        /\ Goes(p, "idle", NoFile, NoFile)
        /\ UNCHANGED <<leaf, handle, misplaced, replaced>>

-----------------------------------------------------------------------------
\* admit_once, first part: the stamp, then a connection by path.
admit_once(p) ==
    /\ opener[p] = Idle /\ handle[p].handles > 0
    /\ Stampable /\ leaf = handle[p].stamp
    /\ Goes(p, "admitting", NoFile, NoFile)
    /\ UNCHANGED <<disk, leaf, handle, lock, misplaced, replaced>>

connect(p) ==
    /\ opener[p].at = "admitting" /\ opener[p].ino = NoFile
    /\ leaf # NoFile
    /\ Goes(p, "admitting", leaf, NoFile)
    /\ UNCHANGED <<disk, leaf, handle, lock, misplaced, replaced>>

\* Mutant: admission trusts the stamps and does not compare the identity.
begin_AnyStore(p) ==
    LET i == opener[p].ino
    IN  /\ opener[p].at = "admitting" /\ i # NoFile
        /\ lock[i] = NoFile
        /\ lock' = [lock EXCEPT ![i] = p]
        /\ Goes(p, "admitted", i, NoFile)
        /\ UNCHANGED <<disk, leaf, handle, misplaced, replaced>>

\* BEGIN IMMEDIATE, validate against the remembered identity, verify the
\* settings in-band, stamp again.
begin(p) ==
    LET i == opener[p].ino
    IN  /\ opener[p].at = "admitting" /\ i # NoFile
        /\ lock[i] = NoFile
        /\ validate(i) = handle[p].identity
        /\ leaf = handle[p].stamp
        /\ lock' = [lock EXCEPT ![i] = p]
        /\ Goes(p, "admitted", i, NoFile)
        /\ UNCHANGED <<disk, leaf, handle, misplaced, replaced>>

\* The admitted transaction commits into the connected file.
commit(p) ==
    LET i == opener[p].ino
    IN  /\ opener[p].at = "admitted"
        /\ lock' = [lock EXCEPT ![i] = NoFile]
        /\ misplaced' = IF disk[i].identity = handle[p].identity THEN misplaced
                        ELSE misplaced \cup {p}
        /\ Goes(p, "idle", NoFile, NoFile)
        /\ UNCHANGED <<disk, leaf, handle, replaced>>

\* try_clone and Drop: the family's handle budget.
try_clone(p) ==
    /\ handle[p].handles \in 1 .. MAX_CONNECTIONS - 1
    /\ handle' = [handle EXCEPT ![p].handles = @ + 1]
    /\ UNCHANGED <<disk, leaf, opener, lock, misplaced, replaced>>

drop(p) ==
    /\ handle[p].handles > 0 /\ opener[p] = Idle
    /\ handle' = IF handle[p].handles = 1 THEN [handle EXCEPT ![p] = NoStore]
                                          ELSE [handle EXCEPT ![p].handles = @ - 1]
    /\ UNCHANGED <<disk, leaf, opener, lock, misplaced, replaced>>

-----------------------------------------------------------------------------
\* The operator puts another store at the path, or takes it away; not while a
\* connection holds the file's lock.
Replace ==
    /\ leaf # NoFile /\ lock[leaf] = NoFile
    /\ \/ /\ Len(disk) < MaxFiles
          /\ disk' = Append([disk EXCEPT ![leaf].links = 0],
                            [identity |-> Len(disk) + 1, notes |-> 3, links |-> 1])
          /\ leaf' = Len(disk')
       \/ disk' = [disk EXCEPT ![leaf].links = 0] /\ leaf' = NoFile
    /\ replaced' = replaced \cup {leaf}
    /\ UNCHANGED <<opener, handle, lock, misplaced>>

\* The process dies; SQLite rolls its transaction back.
Dies(p) ==
    /\ opener[p] # Idle
    /\ opener' = [opener EXCEPT ![p] = Idle]
    /\ handle' = [handle EXCEPT ![p] = NoStore]
    /\ lock' = [i \in DOMAIN lock |-> IF lock[i] = p THEN NoFile ELSE lock[i]]
    /\ UNCHANGED <<disk, leaf, misplaced, replaced>>

StoreNext ==
    \/ \E p \in Openers :
          \/ open(p) \/ initialize(p) \/ publish(p) \/ unlink(p) \/ make_store(p)
          \/ existing(p) \/ upgrade(p) \/ upgrade_commit(p) \/ refuse(p)
          \/ admit_once(p) \/ connect(p) \/ begin(p) \/ commit(p)
          \/ try_clone(p) \/ drop(p) \/ Dies(p)
    \/ Replace

StoreSpec == StoreInit /\ [][StoreNext]_storeVars

-----------------------------------------------------------------------------
\* One store per path and per handle: whatever was put at the path meanwhile,
\* no transaction is committed into another store than the one the handle was
\* opened on; a published file is complete and its creation never displaces
\* another; two processes that create at the same time end on one store
\* (open, existing, admit_once).
OneStore ==
    /\ misplaced = {}
    /\ \A p \in Openers :
          /\ handle[p] # NoStore => handle[p].stamp = leaf \/ handle[p].stamp \in replaced
          /\ opener[p].at = "admitted" => disk[opener[p].ino].notes >= 3
          /\ handle[p].handles <= MAX_CONNECTIONS
    /\ leaf # NoFile /\ disk[leaf].notes < 3 => leaf = 1
=============================================================================
