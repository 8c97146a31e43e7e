----------------------------- MODULE FuseClient -----------------------------
(***************************************************************************)
(* The FUSE client's asynchronous operations: FuseOpsProxy and              *)
(* FuseAsyncOpBase with the Lookup, GetAttr, Mkdir and OpenDir operations   *)
(* (client/fuse).  Two threads run: fuse_session_loop (fuse_main CHECKs for *)
(* -s) creates an operation per request of the kernel and starts its RPC;   *)
(* the completion thread waits in AsyncCompleteRpc and calls the            *)
(* operation's on_finished_, which answers the kernel and deletes the       *)
(* operation.  The two meet in the completion queue only.                   *)
(*                                                                          *)
(* The NameNode is left open: a response may have any error code of the     *)
(* StatusCode enumeration, an RPC may fail without a response and, as no    *)
(* deadline is set for it, it may never end.                                *)
(***************************************************************************)
EXTENDS Naturals, Sequences, FiniteSets

CONSTANT Ops    \* the requests of the kernel, each with its operation

VARIABLES
    session,    \* "mounting", "running", "shutdown", "destroyed" or "aborted"
    kind,       \* which operation a request is, once it has arrived
    pc,         \* how far the session loop has come with the operation
    rpc,        \* the state of the RPC: none, sent, how it ended
    done,       \* whether on_finished_ has been called
    replies,    \* what the kernel was answered, oldest first
    freed       \* whether the operation has been deleted

vars == <<session, kind, pc, rpc, done, replies, freed>>

Kinds == {"lookup", "getattr", "mkdir", "opendir"}

\* The codes that a response's error_code may be cast to.
ErrorCodes ==
    {"kSystemError", "kInvalidArgumentError", "kPermissionError", "kAlreadyExistsError",
     "kNotFoundError", "kNotDirError", "kParentNotFoundError", "kParentNotDirError",
     "kConflictError"}

Responses == {"kOK"} \cup ErrorCodes
Outcomes == {"failed"} \cup Responses

\* ToErrno of the four operations.
ToErrnoLookup(code) == IF code = "kNotFoundError" THEN "ENOENT" ELSE "unknown"
ToErrnoGetAttr(code) == IF code = "kNotFoundError" THEN "ENOENT" ELSE "unknown"
ToErrnoMkdir(code) ==
    CASE code = "kPermissionError" -> "EACCES"
      [] code = "kAlreadyExistsError" -> "EEXIST"
      [] code = "kParentNotFoundError" -> "ENOENT"
      [] code = "kParentNotDirError" -> "ENOTDIR"
      [] OTHER -> "unknown"
ToErrnoOpenDir(code) ==
    CASE code = "kPermissionError" -> "EACCES"
      [] code = "kNotFoundError" -> "ENOENT"
      [] code = "kNotDirError" -> "ENOTDIR"
      [] OTHER -> "unknown"

ToErrno(k, code) ==
    CASE k = "lookup" -> ToErrnoLookup(code)
      [] k = "getattr" -> ToErrnoGetAttr(code)
      [] k = "mkdir" -> ToErrnoMkdir(code)
      [] k = "opendir" -> ToErrnoOpenDir(code)

\* The errno of an error reply: EIO for a code that ToErrno does not know.
ErrnoOrEIO(k, code) == IF ToErrno(k, code) = "unknown" THEN "EIO" ELSE ToErrno(k, code)

Init ==
    /\ session = "mounting"
    /\ kind = [o \in Ops |-> "none"]
    /\ pc = [o \in Ops |-> "none"]
    /\ rpc = [o \in Ops |-> "none"]
    /\ done = [o \in Ops |-> FALSE]
    /\ replies = [o \in Ops |-> <<>>]
    /\ freed = [o \in Ops |-> FALSE]

----------------------------------------------------------------------------
\* FuseOpsProxy::Init: the completion thread starts, a synchronous GetInode
\* follows, and its status is CHECKed.
Mount ==
    /\ session = "mounting"
    /\ session' \in {"running", "aborted"}
    /\ UNCHANGED <<kind, pc, rpc, done, replies, freed>>

\* The session loop runs one operation's constructor and Start at a time.
LoopIsFree == \A o \in Ops : pc[o] \in {"none", "returned"}

\* A request of the kernel arrives.  CreateOp, and Start up to StartCall: the RPC
\* is under way.
StartCall(o, k) ==
    /\ session = "running"
    /\ LoopIsFree
    /\ pc[o] = "none"
    /\ pc' = [pc EXCEPT ![o] = "called"]
    /\ kind' = [kind EXCEPT ![o] = k]
    /\ rpc' = [rpc EXCEPT ![o] = "sent"]
    /\ UNCHANGED <<session, done, replies, freed>>

\* Start sets on_finished_ and hands it to the queue with resp_reader_->Finish:
\* from now on the completion thread may run it, and delete the operation.
RegisterFinish(o) ==
    /\ pc[o] = "called"
    /\ pc' = [pc EXCEPT ![o] = "registered"]
    /\ UNCHANGED <<session, kind, rpc, done, replies, freed>>

\* Start and CreateOp return.  Neither touches the operation after Finish, and no
\* handler of fuse_lowlevel_ops uses the pointer that CreateOp returns.
StartReturns(o) ==
    /\ pc[o] = "registered"
    /\ pc' = [pc EXCEPT ![o] = "returned"]
    /\ UNCHANGED <<session, kind, rpc, done, replies, freed>>

\* The RPC ends: a response without or with an error code, or no response.
Respond(o, r) ==
    /\ rpc[o] = "sent"
    /\ rpc' = [rpc EXCEPT ![o] = r]
    /\ UNCHANGED <<session, kind, pc, done, replies, freed>>

RpcEnds(o) == \E r \in Outcomes : Respond(o, r)

\* The queue returns a tag that was registered, once, when the RPC has ended.
InQueue(o) == pc[o] \in {"registered", "returned"} /\ rpc[o] # "sent" /\ ~done[o]

\* Mutants: an error reply falls through to OnSuccess; it is left out; a failed
\* RPC is answered with EIO.
FinishOutcomeFallsThrough(o) ==
    CASE rpc[o] = "failed" -> [reply |-> <<>>, free |-> FALSE]
      [] rpc[o] = "kOK" -> [reply |-> <<"ok">>, free |-> TRUE]
      [] OTHER -> [reply |-> <<ErrnoOrEIO(kind[o], rpc[o]), "ok">>, free |-> TRUE]
FinishOutcomeNoErrorReply(o) ==
    IF rpc[o] = "kOK" THEN [reply |-> <<"ok">>, free |-> TRUE]
    ELSE [reply |-> <<>>, free |-> FALSE]
FinishOutcomeAlwaysReplies(o) ==
    CASE rpc[o] = "kOK" -> [reply |-> <<"ok">>, free |-> TRUE]
      [] OTHER -> [reply |-> <<IF rpc[o] = "failed" THEN "EIO" ELSE ErrnoOrEIO(kind[o], rpc[o])>>,
                   free |-> FALSE]

\* What Finish does: nothing but logging when the RPC failed; an error reply for
\* an error code, without deleting the operation; OnSuccess and delete otherwise.
FinishOutcome(o) ==
    CASE rpc[o] = "failed" -> [reply |-> <<>>, free |-> FALSE]
      [] rpc[o] = "kOK" -> [reply |-> <<"ok">>, free |-> TRUE]
      [] OTHER -> [reply |-> <<ErrnoOrEIO(kind[o], rpc[o])>>, free |-> FALSE]

\* AsyncCompleteRpc takes the tag out of the queue and calls on_finished_.
Complete(o) ==
    /\ InQueue(o)
    /\ done' = [done EXCEPT ![o] = TRUE]
    /\ replies' = [replies EXCEPT ![o] = @ \o FinishOutcome(o).reply]
    /\ freed' = [freed EXCEPT ![o] = FinishOutcome(o).free]
    /\ UNCHANGED <<session, kind, pc, rpc>>

\* The session loop has ended and Destroy shuts the queue down.
Shutdown ==
    /\ session = "running"
    /\ LoopIsFree
    /\ session' = "shutdown"
    /\ UNCHANGED <<kind, pc, rpc, done, replies, freed>>

\* Next returns false once the queue is shut down and no tag is outstanding.
QueueIsDrained == \A o \in Ops : pc[o] = "none" \/ done[o]

\* Mutant: Destroy loops until every request is answered.
JoinWhenAnswered ==
    /\ session = "shutdown"
    /\ session' = IF \A o \in Ops : pc[o] = "none" \/ replies[o] # <<>> THEN "destroyed"
                  ELSE session
    /\ UNCHANGED <<kind, pc, rpc, done, replies, freed>>

\* Destroy joins the completion thread, and the session is destroyed.
Join ==
    /\ session = "shutdown"
    /\ QueueIsDrained
    /\ session' = "destroyed"
    /\ UNCHANGED <<kind, pc, rpc, done, replies, freed>>

\* The client has ended.
Ended == session \in {"destroyed", "aborted"} /\ UNCHANGED vars

Next ==
    \/ Mount \/ Shutdown \/ Join \/ Ended
    \/ \E o \in Ops : RegisterFinish(o) \/ StartReturns(o) \/ RpcEnds(o) \/ Complete(o)
                    \/ \E k \in Kinds : StartCall(o, k)

\* The operating system runs both threads.  Nothing makes an RPC end: no deadline
\* is set for it.
Fairness ==
    /\ WF_vars(Join)
    /\ \A o \in Ops : /\ WF_vars(RegisterFinish(o))
                     /\ WF_vars(StartReturns(o))
                     /\ WF_vars(Complete(o))

Spec == Init /\ [][Next]_vars /\ Fairness

\* The deadline that rpc_timeout_ms announces: every RPC ends, one way or another.
TimeoutSpec == Spec /\ \A o \in Ops : WF_vars(RpcEnds(o))

----------------------------------------------------------------------------
TypeOK ==
    /\ session \in {"mounting", "running", "shutdown", "destroyed", "aborted"}
    /\ kind \in [Ops -> Kinds \cup {"none"}]
    /\ pc \in [Ops -> {"none", "called", "registered", "returned"}]
    /\ \A o \in Ops : rpc[o] \in IF kind[o] = "none" THEN {"none"} ELSE {"sent"} \cup Outcomes
    /\ done \in [Ops -> BOOLEAN]
    /\ \A o \in Ops : replies[o] \in Seq({"ok", "EIO", "ENOENT", "EACCES", "EEXIST", "ENOTDIR"})
    /\ freed \in [Ops -> BOOLEAN]

\* A request is answered at most once, whichever way its RPC ends, and its
\* operation is deleted only after it was answered: fuse_reply_* frees the
\* request, and a second reply would use it after that.
AnsweredOnce ==
    \A o \in Ops : Len(replies[o]) <= 1 /\ (freed[o] => Len(replies[o]) = 1)

\* A request whose RPC brought a response is answered, also when the response is
\* there before Start has registered its tag, or after Destroy has shut the queue
\* down.
Answered == \A o \in Ops : rpc[o] \in Responses ~> replies[o] # <<>>

\* Destroy ends once every RPC has: the requests that got no response, and are
\* never answered, do not keep it waiting.
DestroyEnds ==
    session = "shutdown" /\ (\A o \in Ops : rpc[o] # "sent") ~> session = "destroyed"

\* "rpc_timeout_ms = 1000" (fuse_main.cc): an RPC without a response is given
\* up, and every request of the kernel is answered.
EveryRequestAnswered == \A o \in Ops : pc[o] = "called" ~> replies[o] # <<>>
=============================================================================
