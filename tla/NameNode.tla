------------------------------ MODULE NameNode ------------------------------
(***************************************************************************)
(* The NameNode: the handlers of service/operation over the directory table *)
(* (Serde) and the permission checks (Acl), with failing reads, failing     *)
(* writes and restarts.                                                     *)
(*                                                                          *)
(* main runs every handler on one thread with an inline scheduler, so one   *)
(* handler ends before the next one starts: a handler is one step here, and *)
(* with one transaction open at a time every commit is applied (KVStore     *)
(* with MaxOpen = 1).  Next returns any id of the range that IDGen shows    *)
(* its ids to be in, ids that it has returned before included: which order  *)
(* they come in is IDGen's matter, and used and unordered record it.        *)
(***************************************************************************)
EXTENDS Serde, Acl, Sequences, FiniteSets

CONSTANTS
    Names,                  \* the names of directories, without the empty string
    Users, Modes,           \* who sends requests, and the modes of new directories
    Limits,                 \* the limits of ListDir requests; 0 when it is not set
    list_dir_default_limit  \* the flag
CONSTANTS
    MaxInodeID,             \* the largest id of the generator, 2^kTimestampBits - 1
    Times,                  \* of the clock, in nanoseconds
    MaxCreations, MaxRestarts   \* bounds of a behaviour

\* A Dir as the table takes and returns it.
Dirs == [parent_id : Nat, name : Nat, id : Nat,
         acl : [uid : Nat, gid : Nat, perm : SUBSET Nat],
         ctime_in_ns : Nat, mtime_in_ns : Nat, atime_in_ns : Nat]

ASSUME NameNodeAssumption ==
    /\ NoDir \notin Dirs /\ CheckFailed \notin Dirs \cup {NoDir}
    /\ Users \subseteq [uid : Nat, gid : Nat]
    /\ Modes \subseteq SUBSET Nat
    /\ Names \subseteq Nat \ {0}
    /\ Limits \subseteq Nat
    /\ list_dir_default_limit \in Nat \ {0}
    /\ MaxInodeID \in Nat \ {0}
    /\ Times \subseteq Nat \ {0}
    /\ MaxCreations \in Nat
    /\ MaxRestarts \in Nat

VARIABLES
    log,    \* the states of RocksDB, one per committed transaction, oldest first
    reply,  \* the response of the handler that just ended, until gRPC has it
    alive,  \* FALSE once a CHECK has failed: the server has stopped
    restarts

\* History variables, which no action reads but to extend them.
VARIABLES
    used,       \* the ids that Next returned, over all restarts
    unordered   \* those of them that it once returned although not above all before

ids == <<used, unordered>>
vars == <<log, reply, alive, restarts, ids>>

\* What a handler reads: HandlerCtx starts its transaction on the latest state.
db == log[Len(log)]

\* The ids a request may name: those of directories, 0 and ids nothing has.
ReqIds == 0..MaxInodeID

NoReply == [req |-> <<>>]

Init ==
    /\ log = <<EmptyDB>>
    /\ reply = NoReply
    /\ alive = TRUE
    /\ restarts = 0
    /\ used = {}
    /\ unordered = {}

----------------------------------------------------------------------------
\* rpc.finish: the response leaves the server.
Finish ==
    /\ reply # NoReply
    /\ reply' = NoReply
    /\ UNCHANGED <<log, alive, restarts, ids>>

\* The server is running and takes a request.
Ready == alive /\ reply = NoReply

\* A response without effect: an error code, or the answer of a read.
Answer(resp) ==
    /\ Ready
    /\ reply' = resp
    /\ UNCHANGED <<log, alive, restarts, ids>>

Refuse(req, code) == Answer([req |-> req, code |-> code])

\* A CHECK throws in a handler: the server stops without a response.
Stop ==
    /\ Ready
    /\ alive' = FALSE
    /\ UNCHANGED <<log, reply, restarts, ids>>

\* Mutants: the id and the parent's id are swapped; the parent's id, or the
\* times, are left unset.
NewDirSwapped(parent_id, name, id, acl, now) ==
    [parent_id |-> id, name |-> name, id |-> parent_id, acl |-> acl,
     ctime_in_ns |-> now, mtime_in_ns |-> now, atime_in_ns |-> now]

NewDirOrphan(parent_id, name, id, acl, now) ==
    [parent_id |-> 0, name |-> name, id |-> id, acl |-> acl,
     ctime_in_ns |-> now, mtime_in_ns |-> now, atime_in_ns |-> now]
NewDirNoTimes(parent_id, name, id, acl, now) ==
    [parent_id |-> parent_id, name |-> name, id |-> id, acl |-> acl,
     ctime_in_ns |-> now, mtime_in_ns |-> 0, atime_in_ns |-> 0]

\* The Dir that MkdirsOp writes.
NewDir(parent_id, name, id, acl, now) ==
    [parent_id |-> parent_id, name |-> name, id |-> id, acl |-> acl,
     ctime_in_ns |-> now, mtime_in_ns |-> now, atime_in_ns |-> now]

\* Next returns id, which it may have returned before.
NextID(id) ==
    /\ used' = used \cup {id}
    /\ unordered' = IF \A i \in used \cup {kRootInodeID} : i < id THEN unordered
                    ELSE unordered \cup {id}

\* MkdirsOp past its checks: Next, Write and CommitTxn.  A CHECK in Next stops
\* the server before an id is drawn; one in CommitTxn, when RocksDB does not
\* accept the batch, after.
MkdirsWrite(parent_id, parent, name, user, mode) ==
    \/ Stop
    \/ \E id \in ReqIds \ {0}, now \in Times :
        LET acl == ChildAcl(parent.acl, user, mode)
            dir == NewDir(parent_id, name, id, acl, now)
            written ==
                /\ log' = Append(log, WriteDir(db, NoDir, dir))
                /\ reply' = [req |-> <<"Mkdirs", parent_id, name>>, code |-> "kOK", id |-> id]
                /\ alive' = TRUE
            write_fails == alive' = FALSE /\ UNCHANGED <<log, reply>>
        IN  /\ Ready
            /\ Len(log) <= MaxCreations
            /\ NextID(id)
            /\ written \/ write_fails
            /\ UNCHANGED restarts

\* MkdirsOp::Run.
Mkdirs(parent_id, name, user, mode) ==
    LET parent == ReadDir(db, parent_id)
        req    == <<"Mkdirs", parent_id, name>>
    IN  \/ Refuse(req, "kSystemError")                   \* a Get failed
        \/ IF parent = CheckFailed THEN Stop
           ELSE IF parent = NoDir THEN Refuse(req, "kParentNotFoundError")
           ELSE IF ~MayMkdir(parent.acl, user) THEN Refuse(req, "kPermissionError")
           ELSE MkdirsWrite(parent_id, parent, name, user, mode)

\* GetInodeOp::Run.
GetInode(id) ==
    LET dir == ReadDir(db, id)
        req == <<"GetInode", id>>
    IN  \/ Refuse(req, "kSystemError")
        \/ IF dir = CheckFailed THEN Stop
           ELSE IF dir = NoDir THEN Refuse(req, "kNotFoundError")
           ELSE Answer([req |-> req, code |-> "kOK"])

\* LookupOp::Run.
Lookup(parent_id, name) ==
    LET dent == ReadDEnt(db, parent_id, name)
        req  == <<"Lookup", parent_id, name>>
    IN  \/ Refuse(req, "kSystemError")
        \/ dent = NoDir /\ Refuse(req, "kNotFoundError")
        \/ dent # NoDir /\ Answer([req |-> req, code |-> "kOK", id |-> dent.id])

\* Mutant: the scan starts behind start_after.
InScanExclusive(parent_id, start_after, key) == key[1] = parent_id /\ key[2] > start_after

\* The keys that the scan of KVDEntView::List passes: it starts at start_after
\* itself, and no name reaches its end, "\xFF".
InScan(parent_id, start_after, key) == key[1] = parent_id /\ key[2] >= start_after

\* KVDEntView::List: the first limit entries, sent in the order of their names.
ListDEnts(parent_id, start_after, limit) ==
    LET names == {k[2] : k \in {d \in DOMAIN db.dent : InScan(parent_id, start_after, d)}}
    IN  {<<n, ReadDEnt(db, parent_id, n).id>> :
            n \in {m \in names : Cardinality({l \in names : l < m}) < limit}}

\* The parent_dent of a first ListDir: unset, here 0, when the grandparent is gone.
ParentDEnt(id, dir) ==
    IF id = kRootInodeID THEN id
    ELSE IF ReadDir(db, dir.parent_id) = NoDir THEN 0 ELSE dir.parent_id

\* ListDirOp::Run.
ListDir(id, user, start_after, limit) ==
    LET dir  == ReadDir(db, id)
        ents == ListDEnts(id, start_after, IF limit > 0 THEN limit ELSE list_dir_default_limit)
        req  == <<"ListDir", id, start_after, limit>>
        grandparent_checks ==
            start_after = 0 /\ id # kRootInodeID /\ ReadDir(db, dir.parent_id) = CheckFailed
    IN  \/ Refuse(req, "kSystemError")
        \/ IF dir = CheckFailed THEN Stop
           ELSE IF dir = NoDir THEN Refuse(req, "kParentNotFoundError")
           ELSE IF ~MayList(dir.acl, user) THEN Refuse(req, "kPermissionError")
           ELSE IF grandparent_checks THEN Stop
           ELSE Answer([req         |-> req,
                        code        |-> "kOK",
                        parent_dent |-> IF start_after = 0 THEN ParentDEnt(id, dir) ELSE 0,
                        ents        |-> ents,
                        has_more    |-> Cardinality(ents) = limit])

\* The server is started again, with the first n states RocksDB kept.
Restart(n) ==
    /\ restarts < MaxRestarts
    /\ restarts' = restarts + 1
    /\ reply = NoReply
    /\ alive' = TRUE
    /\ log' = SubSeq(log, 1, n)
    /\ UNCHANGED <<reply, ids>>

Next ==
    \/ Finish
    \/ \E p \in ReqIds, n \in Names, u \in Users, m \in Modes : Mkdirs(p, n, u, m)
    \/ \E i \in ReqIds : GetInode(i)
    \/ \E p \in ReqIds, n \in Names : Lookup(p, n)
    \/ \E i \in ReqIds, u \in Users, s \in Names \cup {0}, l \in Limits : ListDir(i, u, s, l)
    \/ \E n \in 1..Len(log) : Restart(n)

Spec == Init /\ [][Next]_vars

----------------------------------------------------------------------------
Inodes == DOMAIN db.inode
ParentOf(id) == db.inode[id].parent_id

TypeOK ==
    /\ Inodes \subseteq ReqIds
    /\ DOMAIN db.mtime = Inodes /\ DOMAIN db.atime = Inodes
    /\ \A id \in Inodes : db.mtime[id] \in Times /\ db.atime[id] \in Times
    /\ DOMAIN db.dent \subseteq ReqIds \X Names
    /\ Len(log) \in 1..MaxCreations + 1
    /\ alive \in BOOLEAN
    /\ restarts \in 0..MaxRestarts
    /\ used \subseteq ReqIds \ {0} /\ unordered \subseteq used

\* "FOREIGN KEY (parent_id) REFERENCES DirTable(id)" (the schema of DirTable):
\* the parent of every stored directory can be read, also after a restart that
\* lost the latest transactions and with clients that still name lost ids.
ForeignKey == \A id \in Inodes : ReadDir(db, ParentOf(id)) \notin {NoDir, CheckFailed}

\* The directories are a tree below the root: a directory is newer than its
\* parent, unless the generator gave its id out of order.  It rests on Mkdirs
\* reading the parent before it calls Next.
ParentIsOlder == \A id \in Inodes \ unordered : ParentOf(id) < id

\* What Lookup and ListDir find can be read: every entry names a stored
\* directory, which has the entry's parent and name unless the generator gave
\* its id out of order.
DEntsResolve ==
    \A k \in DOMAIN db.dent :
        LET id == db.dent[k].id
        IN  /\ id \in Inodes
            /\ id \notin unordered => <<db.inode[id].parent_id, db.inode[id].name>> = k

\* A listing of a directory that starts at its beginning has a "..": ListDirOp
\* leaves it out when the grandparent is gone, and FuseOpenDirOp adds it all the same.
DotDotPresent ==
    reply # NoReply /\ reply.req[1] = "ListDir" /\ reply.code = "kOK" /\ reply.req[3] = 0
        => reply.parent_dent # 0

\* "PRIMARY KEY (id)" (the schema of DirTable): no step but a restart takes a
\* stored directory away, or replaces it by another one, unless the generator
\* has given its id out of order.
InodesStay ==
    [][restarts' = restarts =>
        \A id \in DOMAIN db.inode :
            /\ id \in DOMAIN db'.inode
            /\ id \notin unordered' => db'.inode[id] = db.inode[id]]_vars

\* The name space that a state of RocksDB stores.
TreeOf(state) ==
    [dirs  |-> [id \in DOMAIN state.inode |->
                   [parent_id |-> state.inode[id].parent_id, name |-> state.inode[id].name]],
     entry |-> [k \in DOMAIN state.dent |-> state.dent[k].id]]

tree == [i \in 1..Len(log) |-> TreeOf(log[i])]

Tree == INSTANCE DirTree
    WITH Root <- kRootInodeID, Ids <- ReqIds, DefaultLimit <- list_dir_default_limit,
         answer <- reply

\* The NameNode implements the name space: every answer is true of the
\* directories at that moment, a Mkdirs below an existing directory adds one
\* under the id it was given, and nothing else but the loss of the latest
\* creations in a crash changes a directory or an entry.
ImplementsDirTree == Tree!Spec

\* "UNIQUE (parent_id, name)" (the schema of DirTable): no two directories have
\* the same parent and name.
UniqueNames ==
    \A i, j \in Inodes :
        i # j => <<ParentOf(i), db.inode[i].name>> # <<ParentOf(j), db.inode[j].name>>
=============================================================================
