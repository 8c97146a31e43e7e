----------------------------- MODULE FuseSystem -----------------------------
(***************************************************************************)
(* The FUSE client (FuseClient) and the NameNode together.  The NameNode is *)
(* the name space of DirTree, which NameNode implements: it handles one     *)
(* request at a time, for this client and for others, and a crash of it     *)
(* loses requests and the latest creations.                                 *)
(*                                                                          *)
(* An RPC can fail at any time before its response is there, or hang for    *)
(* ever.  The NameNode does not learn of that: it still handles the request *)
(* if it has it.                                                            *)
(* The kernel caches neither entries nor attributes (entry_timeout_sec and  *)
(* attr_timeout_sec are 0.0), so every request of a process arrives; and it *)
(* names the root, or an inode number that the client told it.              *)
(***************************************************************************)
EXTENDS FuseClient

CONSTANTS Root, Ids, Names, Limits, DefaultLimit,   \* of DirTree
          MaxOutside    \* crashes and Mkdirs of other clients, together

\* Inode numbers are unsigned integers, names are numbered in their order, and a
\* listing for OpenDir has no limit of its own.
ASSUME FuseSystemAssumption ==
    /\ Ops \subseteq Nat \ {0} /\ MaxOutside \in Nat
    /\ Ids \subseteq Nat /\ Root \in Ids
    /\ Names \subseteq Nat /\ DefaultLimit \in Nat
    /\ 0 \in Limits

VARIABLES
    tree, used, unordered,  \* of DirTree
    answer,     \* of DirTree: the response being sent
    req,        \* the request of an operation's RPC
    waiting,    \* the RPCs that the NameNode has still to handle
    serving,    \* whose response answer is
    resp,       \* resp_ of an operation
    crashes, others
VARIABLES                   \* history variables
    args,       \* the inode number and the name in the kernel's request
    before,     \* the operations that were answered when an operation started
    made,       \* the directory that a Mkdir made, or 0
    era         \* how many crashes there were when the request was handled

Tree == INSTANCE DirTree

client == <<session, kind, pc, rpc, done, replies, freed>>
server == <<tree, used, unordered, answer, serving, crashes, others>>
history == <<args, before, made, era>>
sysvars == <<client, server, history, req, waiting, resp>>

NoResp == [req |-> <<>>]
Nobody == 0

----------------------------------------------------------------------------
\* Mutant: the constructor forgets the parent.
LookupReqNoParent(parent_id, name) == <<"Lookup", 0, name>>

\* The requests that the constructors of the four operations fill in.
LookupReq(parent_id, name) == <<"Lookup", parent_id, name>>
GetAttrReq(id) == <<"GetInode", id>>
MkdirReq(parent_id, name) == <<"Mkdirs", parent_id, name>>
OpenDirReq(id) == <<"ListDir", id, 0, 0>>

Request(k, id, name) ==
    CASE k = "lookup"  -> LookupReq(id, name)
      [] k = "getattr" -> GetAttrReq(id)
      [] k = "mkdir"   -> MkdirReq(id, name)
      [] k = "opendir" -> OpenDirReq(id)

\* Mutant: the entry has the inode number of its parent.
EntryInoOfParent(o) == req[o][2]

\* ToFuseEntryParam: the inode number in a successful reply of lookup and mkdir.
EntryIno(o) == resp[o].id

IsAnswered(o) == replies[o] # <<>>
HasEntry(o) == replies[o] = <<"ok">> /\ kind[o] \in {"lookup", "mkdir"}

\* The inode numbers that the kernel can name.
Known == {Root} \cup {EntryIno(o) : o \in {q \in Ops : HasEntry(q)}}

SysInit ==
    /\ Init
    /\ Tree!Init
    /\ req = [o \in Ops |-> <<>>]
    /\ waiting = {}
    /\ serving = Nobody
    /\ resp = [o \in Ops |-> NoResp]
    /\ crashes = 0 /\ others = 0
    /\ args = [o \in Ops |-> <<>>]
    /\ before = [o \in Ops |-> {}]
    /\ made = [o \in Ops |-> 0]
    /\ era = [o \in Ops |-> 0]

\* A step of the client that does not concern the NameNode.  While a response is
\* being sent it is taken before or after that.
Alone(step) ==
    /\ answer = NoResp
    /\ step
    /\ UNCHANGED <<server, history, req, waiting, resp>>

ClientStep ==
    \/ Alone(Mount) \/ Alone(Shutdown) \/ Alone(Join)
    \/ \E o \in Ops : Alone(RegisterFinish(o)) \/ Alone(StartReturns(o)) \/ Alone(Complete(o))

\* A request of the kernel arrives, and its RPC is under way.  Requests are
\* numbered as they arrive.
Call(o) ==
    /\ answer = NoResp
    /\ \A q \in Ops : q < o => pc[q] # "none"
    /\ \E k \in Kinds, id \in Known, name \in Names :
          /\ StartCall(o, k)
          /\ args' = [args EXCEPT ![o] = <<id, name>>]
          /\ req' = [req EXCEPT ![o] = Request(k, id, name)]
    /\ waiting' = waiting \cup {o}
    /\ before' = [before EXCEPT ![o] = {q \in Ops : IsAnswered(q)}]
    /\ UNCHANGED <<server, made, era, resp>>

\* The NameNode runs on before the client is mounted and after it has ended;
\* only what it does in between is looked at.
Mounted == session \in {"running", "shutdown"}

\* What the NameNode does with a request.
Handle(r) ==
    CASE r[1] = "Mkdirs"   -> Tree!Mkdirs(r[2], r[3])
      [] r[1] = "Lookup"   -> Tree!Lookup(r[2], r[3])
      [] r[1] = "GetInode" -> Tree!GetInode(r[2])
      [] r[1] = "ListDir"  -> Tree!ListDir(r[2], r[3], r[4])

\* The NameNode handles a request of this client.
Serve(o) ==
    /\ Mounted
    /\ o \in waiting
    /\ Handle(req[o])
    /\ waiting' = waiting \ {o}
    /\ serving' = o
    /\ made' = [made EXCEPT ![o] = IF tree' # tree THEN answer'.id ELSE 0]
    /\ era' = [era EXCEPT ![o] = crashes]
    /\ UNCHANGED <<client, crashes, others, args, before, req, resp>>

\* It stops while it handles a Mkdirs, with an id drawn and nothing written.
ServeStops(o) ==
    /\ Mounted
    /\ o \in waiting /\ req[o][1] = "Mkdirs"
    /\ \E id \in Ids \ {0} : Tree!Waste(id)
    /\ waiting' = waiting \ {o}
    /\ UNCHANGED <<client, history, serving, crashes, others, req, resp>>

\* It handles a Mkdirs of another client.
ServeOther ==
    /\ Mounted
    /\ crashes + others < MaxOutside
    /\ others' = others + 1
    /\ \E p \in Ids, n \in Names, id \in Ids \ {0} : Tree!Create(p, n, id)
    /\ UNCHANGED <<client, history, serving, crashes, req, waiting, resp>>

\* Mutant: the response reaches an RPC that has failed.
ReachesLate(o) == o # Nobody

\* The client takes a response for an RPC that is under way.
Reaches(o) == o # Nobody /\ rpc[o] = "sent"

\* The response leaves the NameNode.  It reaches the client or is lost.
Deliver ==
    /\ Tree!Sent
    /\ serving' = Nobody
    /\ \/ /\ Reaches(serving)
          /\ resp' = [resp EXCEPT ![serving] = answer]
          /\ rpc' = [rpc EXCEPT ![serving] = answer.code]
          /\ UNCHANGED <<session, kind, pc, done, replies, freed>>
       \/ UNCHANGED <<client, resp>>
    /\ UNCHANGED <<history, crashes, others, req, waiting>>

\* The RPC ends without a response, whatever the NameNode does with the request.
Fail(o) ==
    /\ answer = NoResp
    /\ Respond(o, "failed")
    /\ UNCHANGED <<server, history, req, waiting, resp>>

\* The NameNode stops and is started again.
Crash(n) ==
    /\ Mounted
    /\ crashes + others < MaxOutside
    /\ crashes' = crashes + 1
    /\ Tree!Lose(n)
    /\ waiting' = {}
    /\ UNCHANGED <<client, history, serving, others, req, resp>>

\* The client has ended.
SysEnded == answer = NoResp /\ Ended /\ UNCHANGED sysvars

SysNext ==
    \/ ClientStep \/ ServeOther \/ Deliver \/ SysEnded
    \/ \E o \in Ops : Call(o) \/ Serve(o) \/ ServeStops(o) \/ Fail(o)
    \/ \E n \in 1..Len(tree) : Crash(n)

\* The client's threads run, and a handler of the NameNode that has answered
\* returns.  Nothing makes an RPC end.
SysFairness ==
    /\ WF_sysvars(Alone(Join))
    /\ WF_sysvars(Deliver)
    /\ \A o \in Ops : /\ WF_sysvars(Alone(RegisterFinish(o)))
                     /\ WF_sysvars(Alone(StartReturns(o)))
                     /\ WF_sysvars(Alone(Complete(o)))

SysSpec == SysInit /\ [][SysNext]_sysvars /\ SysFairness

----------------------------------------------------------------------------
\* With the NameNode in the place of its arbitrary responses the client is the
\* one FuseClient describes: an RPC ends once, so a response that comes after it
\* has failed reaches no operation, and its error codes are of StatusCode.
ImplementsFuseClient == Init /\ [][Next]_vars

\* The number that a name leads to when it once led to id: a Mkdirs may have taken
\* the name over, with a higher number or one that was given out of order.
IsOrTakesOver(ino, id) == ino >= id \/ ino \in unordered

\* A listing has the name, for id or its successor, or is full before the name.
Lists(ents, name, id) ==
    \/ \E e \in ents : e[1] = name /\ IsOrTakesOver(e[2], id)
    \/ Cardinality(ents) = DefaultLimit /\ \A e \in ents : e[1] < name

\* A lookup sees what the kernel was told before it was sent: after a mkdir or a
\* lookup was answered with an inode number, a later lookup of the same name in
\* the same directory finds that number, or the one of a Mkdirs that took the name
\* over, whatever responses were lost or overtaken in between, unless the NameNode
\* crashed between the two.
SeesThePast ==
    \A a, b \in Ops :
        /\ HasEntry(a) /\ a \in before[b] /\ era[a] = era[b]
        /\ kind[b] = "lookup" /\ args[a] = args[b]
        => replies[b] # <<"ENOENT">> /\ (HasEntry(b) => IsOrTakesOver(EntryIno(b), EntryIno(a)))

\* Listings see the past as well: after a mkdir or a lookup was answered with an
\* inode number, a later opendir of the parent has the name, with that number or
\* its successor, or it has as many earlier names as ListDirOp returns at a time,
\* unless the NameNode crashed between the two.
OpenDirSeesThePast ==
    \A a, b \in Ops :
        /\ HasEntry(a) /\ a \in before[b] /\ era[a] = era[b]
        /\ kind[b] = "opendir" /\ args[a][1] = args[b][1] /\ replies[b] = <<"ok">>
        => Lists(resp[b].ents, args[a][2], EntryIno(a))

\* An inode number that the kernel was told stays valid until the NameNode crashes:
\* no getattr, mkdir or opendir for it is answered that the directory is not there,
\* although another Mkdirs may have taken over its name, or its number.
InoStaysValid ==
    \A a, b \in Ops :
        /\ HasEntry(a) /\ a \in before[b] /\ era[a] = era[b]
        /\ kind[b] # "lookup" /\ args[b][1] = EntryIno(a)
        => rpc[b] \notin {"kNotFoundError", "kParentNotFoundError"}

\* "entry_generation = 0" (fuse_main.cc): an inode number that the kernel was told
\* means one directory for ever, unless the generator gave it out of order, also
\* when a crash has lost that directory: no two mkdirs get the same number, and a
\* lookup gets one only for its own name.
InoMeansOne ==
    \A a, b \in Ops :
        /\ a # b /\ HasEntry(a) /\ HasEntry(b) /\ EntryIno(a) = EntryIno(b)
        /\ EntryIno(a) \notin unordered
        => args[a] = args[b] /\ (kind[a] = "mkdir" => kind[b] = "lookup")

\* An error is final: a mkdir that was answered with an errno has made no
\* directory and will make none, although the NameNode handles requests late.
ErrorIsFinal ==
    \A o \in Ops :
        kind[o] = "mkdir" /\ IsAnswered(o) /\ replies[o] # <<"ok">>
            => made[o] = 0 /\ o \notin waiting
=============================================================================
