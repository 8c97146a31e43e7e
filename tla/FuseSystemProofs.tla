-------------------------- MODULE FuseSystemProofs --------------------------
(***************************************************************************)
(* Proofs about FuseClient and FuseSystem, for any number of requests, of   *)
(* directories and of crashes.  The client on its own, whatever the         *)
(* NameNode responds: each request is answered at most once, and before its *)
(* operation is deleted.  With the NameNode, whatever ids it gives: the     *)
(* client meets only the responses that FuseClient allows, and what the     *)
(* kernel is told is true and stays so.                                     *)
(***************************************************************************)
EXTENDS FuseSystem, FiniteSetTheorems, SequenceTheorems, TLAPS

\* Until the completion thread has called on_finished_ an operation is neither
\* answered nor deleted; it is called for a registered operation whose RPC has
\* ended, and the operation is left with what Finish made of the response.
OpOK(o) ==
    /\ kind[o] = "none" <=> pc[o] = "none"
    /\ ~done[o] => replies[o] = <<>> /\ ~freed[o]
    /\ done[o] => /\ pc[o] \in {"registered", "returned"} /\ rpc[o] # "sent"
                  /\ replies[o] = FinishOutcome(o).reply
    /\ Len(replies[o]) <= 1
    /\ freed[o] => Len(replies[o]) = 1

FCInv ==
    /\ TypeOK
    /\ DOMAIN rpc = Ops /\ DOMAIN replies = Ops
    /\ \A o \in Ops : OpOK(o)

\* Whatever code a response has, the errno is one that ToErrno can give, or EIO.
Errnos == {"EIO", "ENOENT", "EACCES", "EEXIST", "ENOTDIR"}

LEMMA ErrnoKnown ==
    ASSUME NEW k \in Kinds, NEW code
    PROVE  ErrnoOrEIO(k, code) \in Errnos
<1>1. ToErrnoLookup(code) \in Errnos \cup {"unknown"}
  BY DEF ToErrnoLookup, Errnos
<1>2. ToErrnoGetAttr(code) \in Errnos \cup {"unknown"}
  BY DEF ToErrnoGetAttr, Errnos
<1>3. ToErrnoMkdir(code) \in Errnos \cup {"unknown"}
  BY DEF ToErrnoMkdir, Errnos
<1>4. ToErrnoOpenDir(code) \in Errnos \cup {"unknown"}
  BY DEF ToErrnoOpenDir, Errnos
<1>5. ToErrno(k, code) \in Errnos \cup {"unknown"}
  BY <1>1, <1>2, <1>3, <1>4 DEF ToErrno, Kinds
<1>6. "EIO" \in Errnos
  BY DEF Errnos
<1> QED
  BY <1>5, <1>6, Zenon DEF ErrnoOrEIO

\* Finish answers once or not at all, and deletes what it has answered.
LEMMA OneReply ==
    ASSUME NEW o
    PROVE  LET r == FinishOutcome(o).reply
           IN  /\ <<>> \o r = r /\ Len(r) <= 1
               /\ FinishOutcome(o).free => Len(r) = 1
               /\ FinishOutcome(o).free \in BOOLEAN
<1> DEFINE e == ErrnoOrEIO(kind[o], rpc[o])
           S == {"ok", e}
<1>1. \A x \in S : <<>> \o <<x>> = <<x>> /\ Len(<<x>>) = 1
  <2> SUFFICES ASSUME NEW x \in S
               PROVE  <<>> \o <<x>> = <<x>> /\ Len(<<x>>) = 1
    OBVIOUS
  <2>1. <<x>> \in Seq(S) /\ Len(<<x>>) = 1
    OBVIOUS
  <2> QED
    BY <2>1, ConcatEmptySeq, Zenon
<1>2. <<>> \o <<>> = <<>> /\ Len(<<>>) = 0
  OBVIOUS
<1>3. \/ FinishOutcome(o) = [reply |-> <<>>, free |-> FALSE]
      \/ FinishOutcome(o) = [reply |-> <<"ok">>, free |-> TRUE]
      \/ FinishOutcome(o) = [reply |-> <<e>>, free |-> FALSE]
  BY Zenon DEF FinishOutcome
<1> HIDE DEF e
<1>4. CASE FinishOutcome(o) = [reply |-> <<>>, free |-> FALSE]
  BY <1>2, <1>4
<1>5. CASE FinishOutcome(o) = [reply |-> <<"ok">>, free |-> TRUE]
  BY <1>1, <1>5
<1>6. CASE FinishOutcome(o) = [reply |-> <<e>>, free |-> FALSE]
  BY <1>1, <1>6
<1> QED
  BY <1>3, <1>4, <1>5, <1>6

\* What Finish answers, by how the RPC ended.
LEMMA ReplyOf ==
    ASSUME NEW o, kind[o] \in Kinds, rpc[o] \in Outcomes
    PROVE  /\ FinishOutcome(o).reply \in Seq({"ok", "EIO", "ENOENT", "EACCES", "EEXIST", "ENOTDIR"})
           /\ rpc[o] = "failed" => FinishOutcome(o).reply = <<>>
           /\ FinishOutcome(o).reply = <<"ok">> <=> rpc[o] = "kOK"
           /\ FinishOutcome(o).reply = <<"ENOENT">> /\ kind[o] = "lookup" =>
                 rpc[o] = "kNotFoundError"
<1>1. CASE rpc[o] = "failed"
  <2>1. FinishOutcome(o).reply = <<>>
    BY <1>1 DEF FinishOutcome
  <2>2. <<>> # <<"ok">> /\ <<>> # <<"ENOENT">>
    OBVIOUS
  <2> QED
    BY <1>1, <2>1, <2>2
<1>2. CASE rpc[o] = "kOK"
  <2>1. FinishOutcome(o).reply = <<"ok">>
    BY <1>2 DEF FinishOutcome
  <2> QED
    BY <1>2, <2>1
<1>3. CASE rpc[o] \notin {"failed", "kOK"}
  <2> DEFINE e == ErrnoOrEIO(kind[o], rpc[o])
  <2>1. FinishOutcome(o).reply = <<e>>
    BY <1>3 DEF FinishOutcome
  <2>2. e \in {"EIO", "ENOENT", "EACCES", "EEXIST", "ENOTDIR"}
    BY ErrnoKnown DEF Errnos
  <2>3. kind[o] = "lookup" /\ e = "ENOENT" => rpc[o] = "kNotFoundError"
    BY DEF ErrnoOrEIO, ToErrno, ToErrnoLookup
  <2> HIDE DEF e
  <2> QED
    BY <1>3, <2>1, <2>2, <2>3
<1> QED
  BY <1>1, <1>2, <1>3

LEMMA FCInit == Init => FCInv
<1>1. Len(<<>>) = 0 /\ <<>> \in Seq({"ok", "EIO", "ENOENT", "EACCES", "EEXIST", "ENOTDIR"})
  OBVIOUS
<1> QED
  BY <1>1 DEF Init, FCInv, TypeOK, OpOK

\* The completion thread calls on_finished_ of a registered operation.
LEMMA CompleteStep ==
    ASSUME FCInv, NEW o \in Ops, Complete(o)
    PROVE  FCInv'
<1>1. /\ pc[o] \in {"registered", "returned"} /\ ~done[o] /\ rpc[o] # "sent"
      /\ done' = [done EXCEPT ![o] = TRUE]
      /\ replies' = [replies EXCEPT ![o] = @ \o FinishOutcome(o).reply]
      /\ freed' = [freed EXCEPT ![o] = FinishOutcome(o).free]
      /\ session' = session /\ pc' = pc /\ kind' = kind /\ rpc' = rpc
  BY Zenon DEF Complete, InQueue
<1>2. /\ replies'[o] = FinishOutcome(o).reply /\ freed'[o] = FinishOutcome(o).free /\ done'[o]
      /\ FinishOutcome(o)' = FinishOutcome(o)
  <2>1. replies'[o] = <<>> \o FinishOutcome(o).reply
    BY <1>1, Zenon DEF FCInv, OpOK
  <2>2. replies'[o] = FinishOutcome(o).reply
    BY <2>1, OneReply, Zenon
  <2>3. freed'[o] = FinishOutcome(o).free /\ done'[o]
    BY <1>1, Zenon DEF FCInv, TypeOK
  <2>4. FinishOutcome(o)' = FinishOutcome(o)
    BY <1>1, Zenon DEF FinishOutcome
  <2> QED
    BY <2>2, <2>3, <2>4
<1>3. \A q \in Ops \ {o} : /\ replies'[q] = replies[q] /\ freed'[q] = freed[q]
                           /\ done'[q] = done[q] /\ FinishOutcome(q)' = FinishOutcome(q)
  BY <1>1, Zenon DEF FCInv, TypeOK, FinishOutcome
<1>4. OpOK(o)'
  BY <1>1, <1>2, OneReply, Zenon DEF OpOK, FCInv
<1>5. ASSUME NEW q \in Ops \ {o} PROVE OpOK(q)'
  <2>1. OpOK(q)
    BY DEF FCInv
  <2>2. /\ replies'[q] = replies[q] /\ freed'[q] = freed[q] /\ done'[q] = done[q]
        /\ FinishOutcome(q)' = FinishOutcome(q) /\ kind' = kind /\ pc' = pc /\ rpc' = rpc
    BY <1>1, <1>3, Zenon
  <2> QED
    BY <2>1, <2>2, Zenon DEF OpOK
<1>7. kind[o] \in Kinds /\ rpc[o] \in Outcomes
  BY <1>1 DEF FCInv, TypeOK, OpOK
<1>8. TypeOK'
  <2>1. \A q \in Ops : replies'[q] \in Seq({"ok", "EIO", "ENOENT", "EACCES", "EEXIST", "ENOTDIR"})
    BY <1>2, <1>3, <1>7, ReplyOf, Zenon DEF FCInv, TypeOK
  <2>2. done' \in [Ops -> BOOLEAN] /\ freed' \in [Ops -> BOOLEAN]
    BY <1>1, OneReply, Zenon DEF FCInv, TypeOK
  <2> QED
    BY <1>1, <2>1, <2>2, Zenon DEF FCInv, TypeOK
<1> QED
  BY <1>1, <1>4, <1>5, <1>8 DEF FCInv

\* The session loop starts an operation, or hands it to the queue.
LEMMA StartStep ==
    ASSUME FCInv, NEW o \in Ops, NEW k \in Kinds, StartCall(o, k)
    PROVE  FCInv'
<1>1. /\ UNCHANGED <<session, done, replies, freed>>
      /\ session = "running" /\ pc[o] = "none"
      /\ pc' = [pc EXCEPT ![o] = "called"]
      /\ kind' = [kind EXCEPT ![o] = k]
      /\ rpc' = [rpc EXCEPT ![o] = "sent"]
  BY Zenon DEF StartCall
<1>2. pc'[o] = "called" /\ kind'[o] = k /\ rpc'[o] = "sent" /\ k # "none" /\ ~done[o]
  BY <1>1 DEF FCInv, TypeOK, OpOK, Kinds
<1>3. \A q \in Ops \ {o} : pc'[q] = pc[q] /\ kind'[q] = kind[q] /\ rpc'[q] = rpc[q]
  BY <1>1 DEF FCInv, TypeOK
<1>4. OpOK(o)'
  BY <1>1, <1>2, Zenon DEF OpOK, FCInv
<1>5. ASSUME NEW q \in Ops \ {o} PROVE OpOK(q)'
  <2>1. OpOK(q)
    BY DEF FCInv
  <2>2. /\ replies' = replies /\ freed' = freed /\ done' = done
        /\ kind'[q] = kind[q] /\ pc'[q] = pc[q] /\ rpc'[q] = rpc[q]
    BY <1>1, <1>3, Zenon
  <2>3. FinishOutcome(q)' = FinishOutcome(q)
    BY <2>2, Zenon DEF FinishOutcome
  <2> QED
    BY <2>1, <2>2, <2>3, Zenon DEF OpOK
<1>7. TypeOK'
  <2>1. /\ kind' \in [Ops -> Kinds \cup {"none"}]
        /\ pc' \in [Ops -> {"none", "called", "registered", "returned"}]
    BY <1>1 DEF FCInv, TypeOK
  <2>2. \A q \in Ops : rpc'[q] \in IF kind'[q] = "none" THEN {"none"}
                                   ELSE {"sent"} \cup Outcomes
    BY <1>2, <1>3, Zenon DEF FCInv, TypeOK
  <2> QED
    BY <1>1, <2>1, <2>2, Zenon DEF FCInv, TypeOK
<1> QED
  BY <1>1, <1>4, <1>5, <1>7 DEF FCInv

LEMMA RegisterStep ==
    ASSUME FCInv, NEW o \in Ops, RegisterFinish(o) \/ StartReturns(o)
    PROVE  FCInv'
<1>1. /\ UNCHANGED <<session, kind, rpc, done, replies, freed>>
      /\ pc[o] # "none"
      /\ \E x \in {"registered", "returned"} : pc' = [pc EXCEPT ![o] = x]
  BY DEF RegisterFinish, StartReturns
<1>2. /\ pc' \in [Ops -> {"none", "called", "registered", "returned"}]
      /\ pc'[o] \in {"registered", "returned"} /\ pc'[o] # "none"
  BY <1>1 DEF FCInv, TypeOK
<1>3. \A q \in Ops \ {o} : pc'[q] = pc[q]
  BY <1>1 DEF FCInv, TypeOK
<1>4. \A q \in Ops : OpOK(q)'
  BY <1>1, <1>2, <1>3, Zenon DEF OpOK, FCInv, FinishOutcome
<1>7. TypeOK'
  BY <1>1, <1>2, Zenon DEF FCInv, TypeOK
<1> QED
  BY <1>1, <1>4, <1>7 DEF FCInv

\* The RPC ends with a response of the NameNode, or without.
LEMMA RespondStep ==
    ASSUME FCInv, NEW o \in Ops, NEW r \in Outcomes, Respond(o, r)
    PROVE  FCInv'
<1>1. /\ UNCHANGED <<session, kind, pc, done, replies, freed>>
      /\ rpc[o] = "sent" /\ rpc' = [rpc EXCEPT ![o] = r]
  BY Zenon DEF Respond
<1>2. ~done[o] /\ kind[o] # "none" /\ rpc'[o] = r
  BY <1>1 DEF FCInv, OpOK, TypeOK
<1>3. \A q \in Ops \ {o} : rpc'[q] = rpc[q]
  BY <1>1 DEF FCInv
<1>4. \A q \in Ops : OpOK(q)'
  BY <1>1, <1>2, <1>3, Zenon DEF OpOK, FCInv, FinishOutcome
<1>5. TypeOK'
  <2>1. \A q \in Ops : rpc'[q] \in IF kind'[q] = "none" THEN {"none"}
                                   ELSE {"sent"} \cup Outcomes
    BY <1>1, <1>2, <1>3, Zenon DEF FCInv, TypeOK
  <2> QED
    BY <1>1, <2>1, Zenon DEF FCInv, TypeOK
<1> QED
  BY <1>1, <1>4, <1>5 DEF FCInv

LEMMA FCStep ==
    ASSUME FCInv, [Next]_vars
    PROVE  FCInv'
<1>1. ASSUME NEW o \in Ops, RpcEnds(o)
      PROVE  FCInv'
  BY <1>1, RespondStep, Zenon DEF RpcEnds
<1>2. CASE UNCHANGED <<kind, pc, rpc, done, replies, freed>> /\ TypeOK'
  BY <1>2, Zenon DEF FCInv, OpOK, FinishOutcome
<1>3. CASE Mount \/ Shutdown \/ Join
  <2>1. /\ session' \in {"running", "aborted", "shutdown", "destroyed"}
        /\ UNCHANGED <<kind, pc, rpc, done, replies, freed>>
    BY <1>3 DEF Mount, Shutdown, Join
  <2>2. session' \in {"mounting", "running", "shutdown", "destroyed", "aborted"}
    BY <2>1
  <2>3. TypeOK'
    BY <2>1, <2>2, Zenon DEF FCInv, TypeOK
  <2> QED
    BY <1>2, <2>1, <2>3
<1>5. CASE UNCHANGED vars
  BY <1>2, <1>5, Zenon DEF vars, FCInv, TypeOK
<1> QED
  BY <1>1, <1>3, <1>5, CompleteStep, StartStep, RegisterStep, Zenon DEF Next, Ended

\* FuseClient without its fairness, which the proofs do not need.
ClientSafety == Init /\ [][Next]_vars

LEMMA FCAlways == ClientSafety => []FCInv
BY FCInit, FCStep, PTL DEF ClientSafety

\* For any number of requests, the state has the shape that the model gives it:
\* a request has no RPC before its operation has, and a reply is success or one of
\* the errnos that ToErrno can make of a response's code.
THEOREM ClientTypeCorrect == Spec => []TypeOK
<1>1. FCInv => TypeOK
  BY DEF FCInv
<1> QED
  BY <1>1, FCAlways, PTL DEF Spec, ClientSafety

\* For any number of requests, each is answered at most once, and before its
\* operation is deleted.
THEOREM RepliesOnce == Spec => []AnsweredOnce
<1>1. FCInv => AnsweredOnce
  BY Zenon DEF FCInv, OpOK, AnsweredOnce
<1> QED
  BY <1>1, FCAlways, PTL DEF Spec, ClientSafety

------------------------------------------------------------------------------
\* The inductive invariant of the system.

IsSeq(s) == \E S : s \in Seq(S)

\* An id that some directory was given is the id of one name in one directory, if
\* it was given in order: no state that a crash may return to has it under another.
Belongs(t, u, w, id, key) ==
    /\ id \in u
    /\ id \notin w =>
          \A i \in 1..Len(t) : \A k \in DOMAIN t[i].entry : t[i].entry[k] = id => k = key

TreeInv ==
    /\ IsSeq(tree) /\ Len(tree) \in Nat \ {0}
    /\ used \subseteq Nat \ {0} /\ used \subseteq Ids /\ unordered \subseteq used
    /\ \A i \in 1..Len(tree) : \A k \in DOMAIN tree[i].entry :
          Belongs(tree, used, unordered, tree[i].entry[k], k)

\* The response to an operation's request, while it is being sent and once the
\* operation has it.
Given(o) == IF serving = o THEN answer ELSE resp[o]

\* The response tells the inode number of a directory.
Found(o) == /\ kind[o] \in {"lookup", "mkdir"}
            /\ Given(o) # NoResp /\ Given(o).code = "kOK"

\* A request is handled at most once, and its response belongs to it.
RequestOK(o) ==
    /\ pc[o] # "none" => req[o] = Request(kind[o], args[o][1], args[o][2])
    /\ pc[o] # "none" => args[o] \in Ids \X Names
    /\ pc[o] = "none" => o \notin waiting
    /\ pc[o] = "none" \/ o \in waiting => Given(o) = NoResp /\ made[o] = 0
    /\ Given(o) # NoResp => /\ Given(o).code \in Responses
                            /\ Given(o).code # "kOK" => made[o] = 0
    /\ IF rpc[o] \in {"none", "sent", "failed"} THEN resp[o] = NoResp
       ELSE resp[o] # NoResp /\ resp[o].code = rpc[o]
    /\ era[o] \in 0..crashes
    /\ \A a \in before[o] : a \in Ops /\ replies[a] # <<>>

\* What a response told is true, and until the next crash the name leads to that
\* directory or to one that took the name over.
FoundOK(o) ==
    Found(o) =>
        /\ Belongs(tree, used, unordered, Given(o).id, args[o])
        /\ era[o] = crashes => /\ args[o] \in DOMAIN Tree!now.entry
                               /\ IsOrTakesOver(Tree!now.entry[args[o]], Given(o).id)

\* Two responses with one inode number that was given in order are about one name,
\* and one of them at most is the one that made the directory.
OneMeaning(a, b) ==
    a # b /\ Found(a) /\ Found(b) /\ Given(a).id = Given(b).id /\ Given(a).id \notin unordered
        => args[a] = args[b] /\ (kind[a] = "mkdir" => kind[b] = "lookup")

\* A lookup that was sent after another answer for the name finds the name.
FindsAgain(a, b) ==
    /\ Found(a) /\ a \in before[b] /\ era[a] = era[b]
    /\ kind[b] = "lookup" /\ args[a] = args[b] /\ Given(b) # NoResp
    => /\ Given(b).code # "kNotFoundError"
       /\ Found(b) => IsOrTakesOver(Given(b).id, Given(a).id)

SysTypeOK ==
    /\ crashes \in Nat
    /\ waiting \subseteq Ops
    /\ serving \in Ops \cup {Nobody}
    /\ answer = NoResp => serving = Nobody
    /\ serving \in Ops => resp[serving] = NoResp
    /\ DOMAIN req = Ops /\ DOMAIN resp = Ops /\ DOMAIN args = Ops /\ DOMAIN before = Ops
    /\ DOMAIN made = Ops /\ DOMAIN era = Ops

SysInv ==
    /\ FCInv
    /\ SysTypeOK
    /\ TreeInv
    /\ \A o \in Ops : RequestOK(o) /\ FoundOK(o)
    /\ \A a, b \in Ops : OneMeaning(a, b) /\ FindsAgain(a, b)

------------------------------------------------------------------------------
\* The name space.

LEMMA SeqAppend ==
    ASSUME NEW s, IsSeq(s), NEW x
    PROVE  /\ IsSeq(Append(s, x)) /\ Len(s) \in Nat /\ Len(Append(s, x)) = Len(s) + 1
           /\ \A i \in 1..Len(s) : Append(s, x)[i] = s[i]
           /\ Append(s, x)[Len(s) + 1] = x
<1>1. PICK S : s \in Seq(S)
  BY DEF IsSeq
<1> DEFINE R == S \cup {x}
<1>2. s \in Seq(R) /\ x \in R
  BY <1>1
<1> HIDE DEF R
<1>3. Append(s, x) \in Seq(R)
  BY <1>2
<1> QED
  BY <1>2, <1>3, AppendProperties DEF IsSeq

LEMMA SeqCut ==
    ASSUME NEW s, IsSeq(s), NEW n \in 1..Len(s)
    PROVE  /\ IsSeq(SubSeq(s, 1, n)) /\ Len(SubSeq(s, 1, n)) = n
           /\ \A i \in 1..n : SubSeq(s, 1, n)[i] = s[i]
<1>1. PICK S : s \in Seq(S)
  BY DEF IsSeq
<1>2. Len(s) \in Nat /\ n \in Nat
  BY <1>1
<1>3. /\ SubSeq(s, 1, n) \in Seq(S) /\ Len(SubSeq(s, 1, n)) = n
      /\ \A i \in 1..n : SubSeq(s, 1, n)[i] = s[i]
  BY <1>1, <1>2, SubSeqProperties
<1> QED
  BY <1>3 DEF IsSeq

\* What no step of the NameNode undoes: ids keep their meaning, and the name
\* space stays well formed.
Keeps ==
    /\ TreeInv' /\ unordered \subseteq unordered'
    /\ \A id, key : Belongs(tree, used, unordered, id, key) =>
                     Belongs(tree', used', unordered', id, key)

\* What a crash alone undoes: names lead to the same directory, or to one that is
\* newer than all others or has an id that was given out of order.
Grows ==
    \A k \in DOMAIN Tree!now.entry :
        /\ k \in DOMAIN Tree!now'.entry
        /\ \/ Tree!now'.entry[k] = Tree!now.entry[k]
           \/ Tree!now'.entry[k] \in unordered'
           \/ \A i \in used : i < Tree!now'.entry[k]

\* The latest state is one of those that are kept.
LEMMA NowOK ==
    ASSUME TreeInv
    PROVE  \A k \in DOMAIN Tree!now.entry :
              /\ Belongs(tree, used, unordered, Tree!now.entry[k], k)
              /\ Tree!now.entry[k] \in Nat \ {0}
<1>1. Len(tree) \in 1..Len(tree)
  BY DEF TreeInv
<1>2. \A k \in DOMAIN Tree!now.entry : Belongs(tree, used, unordered, Tree!now.entry[k], k)
  BY <1>1, Zenon DEF TreeInv, Tree!now
<1>3. \A id, key : Belongs(tree, used, unordered, id, key) => id \in Nat \ {0}
  BY Zenon DEF TreeInv, Belongs
<1> QED
  BY <1>2, <1>3, Zenon

\* The states are kept, and ids may be given that lead nowhere.
LEMMA TreeSame ==
    ASSUME TreeInv, tree' = tree, used \subseteq used', unordered \subseteq unordered',
           used' \subseteq Nat \ {0}, used' \subseteq Ids, unordered' \subseteq used'
    PROVE  Keeps /\ Grows
<1>1. \A id, key : Belongs(tree, used, unordered, id, key) =>
                   Belongs(tree', used', unordered', id, key)
  BY Zenon DEF Belongs
<1>2. TreeInv'
  BY <1>1, Zenon DEF TreeInv
<1>3. Tree!now' = Tree!now
  BY Zenon DEF Tree!now
<1>4. Grows
  BY <1>3, Zenon DEF Grows
<1> QED
  BY <1>1, <1>2, <1>4, Zenon DEF Keeps

LEMMA TreeUnchanged ==
    ASSUME TreeInv, UNCHANGED <<tree, used, unordered>>
    PROVE  Keeps /\ Grows
BY TreeSame, Zenon DEF TreeInv

\* What the generator says of the id it gives.
LEMMA Gives ==
    ASSUME TreeInv, NEW id \in Ids \ {0}, Tree!Give(id)
    PROVE  /\ used' = used \cup {id}
           /\ used' \subseteq Nat \ {0} /\ used' \subseteq Ids
           /\ unordered \subseteq unordered' /\ unordered' \subseteq used'
           /\ id \in unordered' \/ (id \notin used /\ \A i \in used : i < id)
<1>1. id \in Nat \ {0} /\ ~(id < id)
  BY FuseSystemAssumption
<1>2. /\ used' = used \cup {id}
      /\ unordered' = IF \A i \in used \cup {Root} : i < id THEN unordered ELSE unordered \cup {id}
  BY Zenon DEF Tree!Give
<1> QED
  BY <1>1, <1>2, Zenon DEF TreeInv

\* The server stops after it has drawn an id.
LEMMA TreeWastes ==
    ASSUME TreeInv, NEW id \in Ids \ {0}, Tree!Waste(id)
    PROVE  Keeps /\ Grows
<1>1. Tree!Give(id) /\ tree' = tree
  BY Zenon DEF Tree!Waste
<1> QED
  BY <1>1, Gives, TreeSame, Zenon

\* A crash keeps some of the states.
LEMMA TreeLoses ==
    ASSUME TreeInv, NEW n \in 1..Len(tree), Tree!Lose(n)
    PROVE  Keeps
<1>1. tree' = SubSeq(tree, 1, n) /\ used' = used /\ unordered' = unordered
  BY DEF Tree!Lose
<1>2. IsSeq(tree') /\ Len(tree') = n /\ \A i \in 1..n : tree'[i] = tree[i]
  BY <1>1, SeqCut DEF TreeInv
<1>3. \A i \in 1..n : i \in 1..Len(tree)
  BY DEF TreeInv
<1>4. \A id, key : Belongs(tree, used, unordered, id, key) => Belongs(tree', used', unordered', id, key)
  BY <1>1, <1>2, <1>3, Zenon DEF Belongs
<1>5. n \in Nat \ {0}
  BY DEF TreeInv
<1>6. \A i \in 1..Len(tree') : \A k \in DOMAIN tree'[i].entry :
         Belongs(tree', used', unordered', tree'[i].entry[k], k)
  BY <1>2, <1>3, <1>4, Zenon DEF TreeInv
<1>7. TreeInv'
  BY <1>1, <1>2, <1>5, <1>6, Zenon DEF TreeInv
<1> QED
  BY <1>1, <1>4, <1>7, Zenon DEF Keeps

\* A new directory has an id that none had before, so it changes no meaning, or
\* one that from now on counts as given out of order.
LEMMA TreeCreates ==
    ASSUME TreeInv, NEW p, NEW n, NEW id \in Ids \ {0}, Tree!Create(p, n, id)
    PROVE  /\ Keeps /\ Grows
           /\ id \notin used \/ id \in unordered'
           /\ Belongs(tree', used', unordered', id, <<p, n>>)
           /\ <<p, n>> \in DOMAIN Tree!now'.entry /\ Tree!now'.entry[<<p, n>>] = id
           /\ tree' # tree
<1> DEFINE key == <<p, n>>
           last == Tree!now.entry
           next == Tree!Put(Tree!now.entry, key, id)
<1>1. /\ Tree!Give(id)
      /\ \E d : tree' = Append(tree, [dirs |-> d, entry |-> next])
  BY Zenon DEF Tree!Create
<1>2. PICK d : tree' = Append(tree, [dirs |-> d, entry |-> next])
  BY <1>1, Zenon
<1>3. /\ IsSeq(tree') /\ Len(tree) \in Nat /\ Len(tree') = Len(tree) + 1
      /\ \A i \in 1..Len(tree) : tree'[i] = tree[i]
      /\ tree'[Len(tree) + 1] = [dirs |-> d, entry |-> next]
  BY <1>2, SeqAppend DEF TreeInv
<1>4. /\ used' = used \cup {id}
      /\ used' \subseteq Nat \ {0} /\ used' \subseteq Ids
      /\ unordered \subseteq unordered' /\ unordered' \subseteq used'
      /\ id \in unordered' \/ (id \notin used /\ \A i \in used : i < id)
  BY <1>1, Gives, Zenon
<1>5. /\ DOMAIN next = DOMAIN last \cup {key} /\ next[key] = id
      /\ \A k \in DOMAIN last \ {key} : next[k] = last[k]
  BY DEF Tree!Put
<1>6. Tree!now'.entry = next /\ tree'[Len(tree) + 1].entry = next
  BY <1>3 DEF Tree!now
<1> HIDE DEF next, last
<1>7. \A k \in DOMAIN last : Belongs(tree, used, unordered, last[k], k) /\ last[k] \in used
  BY NowOK, Zenon DEF last, Belongs
<1>8. \A i, k : Belongs(tree, used, unordered, i, k) => Belongs(tree', used', unordered', i, k)
  <2> SUFFICES ASSUME NEW i, NEW k, Belongs(tree, used, unordered, i, k), i \notin unordered',
                      NEW j \in 1..Len(tree'), NEW m \in DOMAIN tree'[j].entry,
                      tree'[j].entry[m] = i
               PROVE  m = k
    BY <1>4, Zenon DEF Belongs
  <2>1. i \in used /\ i # id /\ i \notin unordered
    BY <1>4, Zenon DEF Belongs
  <2>2. CASE j \in 1..Len(tree)
    BY <1>3, <2>1, <2>2, Zenon DEF Belongs
  <2>3. CASE j = Len(tree) + 1
    <3>1. m \in DOMAIN next /\ next[m] = i
      BY <1>6, <2>3
    <3>2. m \in DOMAIN last /\ last[m] = i
      BY <1>5, <2>1, <3>1, Zenon
    <3>3. Len(tree) \in 1..Len(tree) /\ tree[Len(tree)].entry = last
      BY DEF TreeInv, Tree!now, last
    <3> QED
      BY <2>1, <3>2, <3>3, Zenon DEF Belongs
  <2> QED
    BY <1>3, <2>2, <2>3
<1>9. Belongs(tree', used', unordered', id, key)
  <2> SUFFICES ASSUME id \notin unordered',
                      NEW j \in 1..Len(tree'), NEW m \in DOMAIN tree'[j].entry,
                      tree'[j].entry[m] = id
               PROVE  m = key
    BY <1>4, Zenon DEF Belongs
  <2>1. CASE j \in 1..Len(tree)
    <3>1. tree'[j] = tree[j]
      BY <1>3, <2>1
    <3>2. Belongs(tree, used, unordered, id, m)
      BY <2>1, <3>1, Zenon DEF TreeInv
    <3> QED
      BY <1>4, <3>2, Zenon DEF Belongs
  <2>2. CASE j = Len(tree) + 1
    <3>1. m \in DOMAIN next /\ next[m] = id
      BY <1>6, <2>2
    <3> QED
      BY <1>4, <1>5, <1>7, <3>1, Zenon
  <2> QED
    BY <1>3, <2>1, <2>2
<1>10. TreeInv'
  <2>1. \A j \in 1..Len(tree) : \A k \in DOMAIN tree'[j].entry :
           Belongs(tree', used', unordered', tree'[j].entry[k], k)
    BY <1>3, <1>8, Zenon DEF TreeInv
  <2>2. \A k \in DOMAIN next : Belongs(tree', used', unordered', next[k], k)
    BY <1>5, <1>7, <1>8, <1>9, Zenon
  <2>3. \A j \in 1..Len(tree') : j \in 1..Len(tree) \/ j = Len(tree) + 1
    BY <1>3
  <2>4. \A j \in 1..Len(tree') : \A k \in DOMAIN tree'[j].entry :
           Belongs(tree', used', unordered', tree'[j].entry[k], k)
    BY <1>6, <2>1, <2>2, <2>3, Zenon
  <2>5. Len(tree') \in Nat \ {0}
    BY <1>3
  <2> QED
    BY <1>3, <1>4, <2>4, <2>5, Zenon DEF TreeInv
<1>11. Grows
  <2>1. \A k \in DOMAIN last : /\ k \in DOMAIN next
                               /\ \/ next[k] = last[k]
                                  \/ next[k] \in unordered'
                                  \/ \A i \in used : i < next[k]
    BY <1>4, <1>5, Zenon
  <2> QED
    BY <1>6, <2>1, Zenon DEF Grows, last
<1>12. tree' # tree
  BY <1>3
<1> QED
  BY <1>4, <1>5, <1>6, <1>8, <1>9, <1>10, <1>11, <1>12, Zenon DEF Keeps

------------------------------------------------------------------------------
\* What the NameNode does with a request, as far as the client can tell.

\* It was refused, or did not concern a name.
AnswersOnly(o) ==
    /\ UNCHANGED <<tree, used, unordered>>
    /\ kind[o] \in {"lookup", "mkdir"} => answer'.code # "kOK"
    /\ answer'.code = "kNotFoundError" /\ kind[o] = "lookup" =>
          args[o] \notin DOMAIN Tree!now.entry

\* The name was found.
FindsName(o) ==
    /\ UNCHANGED <<tree, used, unordered>>
    /\ kind[o] = "lookup" /\ answer'.code = "kOK"
    /\ args[o] \in DOMAIN Tree!now.entry /\ answer'.id = Tree!now.entry[args[o]]

\* The directory was made.
MakesDir(o) ==
    /\ kind[o] = "mkdir" /\ answer'.code = "kOK"
    /\ answer'.id \in Ids \ {0} /\ Tree!Create(args[o][1], args[o][2], answer'.id)

LEMMA RefuseTells ==
    ASSUME NEW r, NEW codes, Tree!Refuse(r, codes)
    PROVE  /\ answer = NoResp /\ UNCHANGED <<tree, used, unordered>>
           /\ answer'.req = r /\ answer'.code \in codes
<1>1. PICK c \in codes : Tree!Tell([req |-> r, code |-> c])
  BY Zenon DEF Tree!Refuse
<1>2. answer = NoResp /\ UNCHANGED <<tree, used, unordered>> /\ answer' = [req |-> r, code |-> c]
  BY <1>1 DEF Tree!Tell, Tree!NoAnswer, NoResp
<1> QED
  BY <1>2

LEMMA HandlesMkdir ==
    ASSUME TreeInv, NEW o, kind[o] = "mkdir", args[o] = <<args[o][1], args[o][2]>>,
           Tree!Mkdirs(args[o][1], args[o][2])
    PROVE  /\ answer = NoResp /\ answer'.req # <<>> /\ answer'.code \in Responses
           /\ AnswersOnly(o) \/ MakesDir(o)
<1> DEFINE p == args[o][1]
           n == args[o][2]
           r == <<"Mkdirs", p, n>>
<1>1. r # <<>>
  OBVIOUS
<1>2. CASE Tree!Refuse(r, {"kSystemError"} \cup
                          {IF Tree!IsDir(p) THEN "kPermissionError" ELSE "kParentNotFoundError"})
  <2>1. /\ answer = NoResp /\ UNCHANGED <<tree, used, unordered>> /\ answer'.req = r
        /\ answer'.code \in {"kSystemError", "kPermissionError", "kParentNotFoundError"}
    BY <1>2, RefuseTells
  <2> QED
    BY <1>1, <2>1 DEF AnswersOnly, Responses, ErrorCodes
<1>3. ASSUME NEW id \in Ids \ {0}, Tree!Create(p, n, id)
      PROVE  /\ answer = NoResp /\ answer'.req # <<>> /\ answer'.code \in Responses
             /\ AnswersOnly(o) \/ MakesDir(o)
  <2>1. answer = NoResp /\ answer' = [req |-> r, code |-> "kOK", id |-> id]
    BY <1>3 DEF Tree!Create, Tree!NoAnswer, NoResp
  <2>2. answer'.req = r /\ answer'.code = "kOK" /\ answer'.id = id
    BY <2>1
  <2> QED
    BY <1>1, <1>3, <2>1, <2>2, Zenon DEF MakesDir, Responses
<1> QED
  BY <1>2, <1>3, Zenon DEF Tree!Mkdirs

LEMMA HandlesLookup ==
    ASSUME TreeInv, NEW o, kind[o] = "lookup", args[o] = <<args[o][1], args[o][2]>>,
           Tree!Lookup(args[o][1], args[o][2])
    PROVE  /\ answer = NoResp /\ answer'.req # <<>> /\ answer'.code \in Responses
           /\ AnswersOnly(o) \/ FindsName(o)
<1> DEFINE p == args[o][1]
           n == args[o][2]
           r == <<"Lookup", p, n>>
           id == Tree!Entry(p, n)
<1>1. r # <<>>
  OBVIOUS
<1>2. /\ id # 0 => args[o] \in DOMAIN Tree!now.entry /\ id = Tree!now.entry[args[o]]
      /\ id = 0 => args[o] \notin DOMAIN Tree!now.entry
  BY NowOK DEF Tree!Entry
<1> HIDE DEF id
<1>3. CASE Tree!Refuse(r, {"kSystemError"} \cup {c \in {"kNotFoundError"} : id = 0})
  <2>1. /\ answer = NoResp /\ UNCHANGED <<tree, used, unordered>> /\ answer'.req = r
        /\ answer'.code \in {"kSystemError", "kNotFoundError"}
        /\ answer'.code = "kNotFoundError" => id = 0
    BY <1>3, RefuseTells
  <2> QED
    BY <1>1, <1>2, <2>1 DEF AnswersOnly, Responses, ErrorCodes
<1>4. CASE id # 0 /\ Tree!Tell([req |-> r, code |-> "kOK", id |-> id])
  <2>1. /\ answer = NoResp /\ UNCHANGED <<tree, used, unordered>>
        /\ answer' = [req |-> r, code |-> "kOK", id |-> id]
    BY <1>4 DEF Tree!Tell, Tree!NoAnswer, NoResp
  <2>2. answer'.req = r /\ answer'.code = "kOK" /\ answer'.id = id
    BY <2>1
  <2> QED
    BY <1>1, <1>2, <1>4, <2>1, <2>2, Zenon DEF FindsName, Responses
<1> QED
  BY <1>3, <1>4, Zenon DEF Tree!Lookup, id

LEMMA HandlesOther ==
    ASSUME NEW o, NEW i, NEW s, NEW l,
           \/ kind[o] = "getattr" /\ Tree!GetInode(i)
           \/ kind[o] = "opendir" /\ Tree!ListDir(i, s, l)
    PROVE  /\ answer = NoResp /\ answer'.req # <<>> /\ answer'.code \in Responses
           /\ AnswersOnly(o)
<1>1. ASSUME NEW x, Tree!Tell(x), x.req # <<>>, x.code = "kOK", kind[o] \in {"getattr", "opendir"}
      PROVE  /\ answer = NoResp /\ answer'.req # <<>> /\ answer'.code \in Responses
             /\ AnswersOnly(o)
  BY <1>1 DEF Tree!Tell, Tree!NoAnswer, NoResp, AnswersOnly, Responses
<1>2. CASE kind[o] = "getattr" /\ Tree!GetInode(i)
  <2> DEFINE r == <<"GetInode", i>>
  <2>1. CASE Tree!Refuse(r, {"kSystemError"} \cup {c \in {"kNotFoundError"} : ~Tree!IsDir(i)})
    <3>1. /\ answer = NoResp /\ UNCHANGED <<tree, used, unordered>> /\ answer'.req = r
          /\ answer'.code \in {"kSystemError", "kNotFoundError"}
      BY <2>1, RefuseTells
    <3> QED
      BY <1>2, <3>1 DEF AnswersOnly, Responses, ErrorCodes
  <2>2. CASE Tree!Tell([req |-> r, code |-> "kOK"])
    BY <1>1, <1>2, <2>2
  <2> QED
    BY <1>2, <2>1, <2>2, Zenon DEF Tree!GetInode
<1>3. CASE kind[o] = "opendir" /\ Tree!ListDir(i, s, l)
  <2> DEFINE r == <<"ListDir", i, s, l>>
  <2>1. CASE Tree!Refuse(r, {"kSystemError"} \cup
                            {IF Tree!IsDir(i) THEN "kPermissionError" ELSE "kParentNotFoundError"})
    <3>1. /\ answer = NoResp /\ UNCHANGED <<tree, used, unordered>> /\ answer'.req = r
          /\ answer'.code \in {"kSystemError", "kPermissionError", "kParentNotFoundError"}
      BY <2>1, RefuseTells
    <3> QED
      BY <1>3, <3>1 DEF AnswersOnly, Responses, ErrorCodes
  <2>2. ASSUME NEW a, NEW e, NEW m,
               Tree!Tell([req |-> r, code |-> "kOK", parent_dent |-> a, ents |-> e, has_more |-> m])
        PROVE  /\ answer = NoResp /\ answer'.req # <<>> /\ answer'.code \in Responses
               /\ AnswersOnly(o)
    BY <1>1, <1>3, <2>2
  <2> QED
    BY <1>3, <2>1, <2>2, Zenon DEF Tree!ListDir
<1> QED
  BY <1>2, <1>3

\* The NameNode handles the request of an operation.
LEMMA Handled ==
    ASSUME TreeInv, NEW o, kind[o] \in Kinds,
           req[o] = Request(kind[o], args[o][1], args[o][2]),
           args[o] = <<args[o][1], args[o][2]>>, Handle(req[o])
    PROVE  /\ answer = NoResp /\ answer' # NoResp /\ answer'.code \in Responses
           /\ AnswersOnly(o) \/ FindsName(o) \/ MakesDir(o)
<1> DEFINE p == args[o][1]
           n == args[o][2]
<1>1. answer'.req # <<>> => answer' # NoResp
  BY DEF NoResp
<1>2. CASE kind[o] = "mkdir"
  <2>1. req[o] = <<"Mkdirs", p, n>>
    BY <1>2 DEF Request, MkdirReq
  <2>2. Tree!Mkdirs(p, n)
    BY <2>1 DEF Handle
  <2> QED
    BY <1>1, <1>2, <2>2, HandlesMkdir
<1>3. CASE kind[o] = "lookup"
  <2>1. req[o] = <<"Lookup", p, n>>
    BY <1>3 DEF Request, LookupReq
  <2>2. Tree!Lookup(p, n)
    BY <2>1 DEF Handle
  <2> QED
    BY <1>1, <1>3, <2>2, HandlesLookup
<1>4. CASE kind[o] = "getattr"
  <2>1. req[o] = <<"GetInode", p>>
    BY <1>4 DEF Request, GetAttrReq
  <2>2. Tree!GetInode(p)
    BY <2>1 DEF Handle
  <2> QED
    BY <1>1, <1>4, <2>2, HandlesOther
<1>5. CASE kind[o] = "opendir"
  <2>1. req[o] = <<"ListDir", p, 0, 0>>
    BY <1>5 DEF Request, OpenDirReq
  <2>2. Tree!ListDir(p, 0, 0)
    BY <2>1 DEF Handle
  <2> QED
    BY <1>1, <1>5, <2>2, HandlesOther
<1> QED
  BY <1>2, <1>3, <1>4, <1>5 DEF Kinds

------------------------------------------------------------------------------
\* The steps of the system.

\* A response stays what it is, or does not reach its operation.
ResponseStays(o) ==
    \/ Given(o)' = NoResp
    \/ /\ Given(o)' = Given(o) /\ kind'[o] = kind[o] /\ args'[o] = args[o]
       /\ era'[o] = era[o] /\ before'[o] = before[o]

\* No request is handled.
Quiet == unordered \subseteq unordered' /\ \A o \in Ops : ResponseStays(o)

LEMMA PairsStay ==
    ASSUME NEW a \in Ops, NEW b \in Ops, ResponseStays(a), ResponseStays(b),
           OneMeaning(a, b), FindsAgain(a, b), unordered \subseteq unordered'
    PROVE  OneMeaning(a, b)' /\ FindsAgain(a, b)'
<1>1. OneMeaning(a, b)'
  BY Zenon DEF ResponseStays, OneMeaning, Found
<1>2. FindsAgain(a, b)'
  BY Zenon DEF ResponseStays, FindsAgain, Found, IsOrTakesOver
<1> QED
  BY <1>1, <1>2

LEMMA FoundStays ==
    ASSUME TreeInv, NEW o \in Ops, ResponseStays(o), FoundOK(o), RequestOK(o),
           crashes \in Nat, Keeps, (crashes' = crashes /\ Grows) \/ crashes' = crashes + 1
    PROVE  FoundOK(o)'
<1> SUFFICES ASSUME Found(o)'
             PROVE  FoundOK(o)'
  BY Zenon DEF FoundOK
<1>1. /\ Found(o) /\ Given(o)' = Given(o) /\ args'[o] = args[o] /\ era'[o] = era[o]
  BY Zenon DEF ResponseStays, Found
<1> DEFINE i == Given(o).id
           k == args[o]
<1>2. Belongs(tree, used, unordered, i, k) /\ Belongs(tree', used', unordered', i, k)
  BY <1>1, Zenon DEF FoundOK, Keeps
<1>3. ASSUME era[o] = crashes'
      PROVE  /\ k \in DOMAIN Tree!now'.entry
             /\ Tree!now'.entry[k] >= i \/ Tree!now'.entry[k] \in unordered'
  <2>1. era[o] = crashes /\ Grows
    BY <1>3 DEF RequestOK
  <2>2. /\ k \in DOMAIN Tree!now.entry
        /\ Tree!now.entry[k] >= i \/ Tree!now.entry[k] \in unordered
    BY <1>1, <2>1, Zenon DEF FoundOK, IsOrTakesOver
  <2>3. /\ k \in DOMAIN Tree!now'.entry
        /\ \/ Tree!now'.entry[k] = Tree!now.entry[k]
           \/ Tree!now'.entry[k] \in unordered'
           \/ i < Tree!now'.entry[k]
    BY <1>2, <2>1, <2>2, Zenon DEF Grows, Belongs
  <2>4. i \in Nat
    BY <1>2, Zenon DEF Belongs, TreeInv
  <2>5. Tree!now'.entry[k] \in Nat
    <3>1. Len(tree') \in 1..Len(tree')
      BY DEF Keeps, TreeInv
    <3>2. Belongs(tree', used', unordered', Tree!now'.entry[k], k)
      BY <2>3, <3>1, Zenon DEF Keeps, TreeInv, Tree!now
    <3> QED
      BY <3>2, Zenon DEF Keeps, TreeInv, Belongs
  <2>6. i < Tree!now'.entry[k] => Tree!now'.entry[k] >= i
    BY <2>4, <2>5
  <2>7. unordered \subseteq unordered'
    BY DEF Keeps
  <2> QED
    BY <2>2, <2>3, <2>6, <2>7, Zenon
<1> QED
  BY <1>1, <1>2, <1>3, Zenon DEF FoundOK, IsOrTakesOver

\* A step that handles no request keeps what the invariant says of responses.
LEMMA QuietStep ==
    ASSUME SysInv, Keeps, (crashes' = crashes /\ Grows) \/ crashes' = crashes + 1,
           \A o \in Ops : ResponseStays(o),
           FCInv', SysTypeOK', \A o \in Ops : RequestOK(o)'
    PROVE  SysInv'
<1>1. TreeInv /\ crashes \in Nat
  BY DEF SysInv, SysTypeOK
<1>2. \A o \in Ops : FoundOK(o)'
  BY <1>1, FoundStays, Zenon DEF SysInv
<1>3. \A a, b \in Ops : OneMeaning(a, b)' /\ FindsAgain(a, b)'
  BY PairsStay, Zenon DEF SysInv, Keeps
<1> QED
  BY <1>2, <1>3, Zenon DEF SysInv, Keeps

\* The steps of the client leave the NameNode and the responses alone, and change
\* no answer that was given.
LEMMA ClientStepOK ==
    ASSUME SysInv, ClientStep
    PROVE  SysInv' /\ [Next]_vars /\ Quiet
<1>1. UNCHANGED <<server, history, req, waiting, resp>>
  BY Zenon DEF ClientStep, Alone
<1>2. /\ UNCHANGED <<tree, used, unordered, answer, serving, crashes, args, before, made, era>>
      /\ UNCHANGED <<req, waiting, resp>>
  BY <1>1, Zenon DEF server, history
<1>3. Next
  BY Zenon DEF ClientStep, Alone, Next
<1>4. FCInv'
  BY <1>3, FCStep DEF SysInv
<1> DEFINE Same == /\ kind' = kind /\ rpc' = rpc
                   /\ \A o \in Ops : /\ pc'[o] = "none" <=> pc[o] = "none"
                                     /\ replies[o] # <<>> => replies'[o] = replies[o]
<1>5. Same
  <2>1. FCInv
    BY DEF SysInv
  <2>2. CASE Mount \/ Shutdown \/ Join
    BY <2>2, Zenon DEF Mount, Shutdown, Join
  <2>3. ASSUME NEW o \in Ops, RegisterFinish(o) \/ StartReturns(o)
        PROVE  Same
    BY <2>1, <2>3 DEF RegisterFinish, StartReturns, FCInv, TypeOK
  <2>4. ASSUME NEW o \in Ops, Complete(o)
        PROVE  Same
    <3>1. /\ kind' = kind /\ rpc' = rpc /\ pc' = pc /\ ~done[o]
          /\ replies' = [replies EXCEPT ![o] = @ \o FinishOutcome(o).reply]
      BY <2>4, Zenon DEF Complete, InQueue
    <3>2. replies[o] = <<>>
      BY <2>1, <3>1, Zenon DEF FCInv, OpOK
    <3>3. \A q \in Ops \ {o} : replies'[q] = replies[q]
      BY <2>1, <3>1 DEF FCInv
    <3> QED
      BY <3>1, <3>2, <3>3, Zenon
  <2> QED
    BY <2>2, <2>3, <2>4, Zenon DEF ClientStep, Alone
<1>6. \A o \in Ops : Given(o)' = Given(o)
  BY <1>2, Zenon DEF Given
<1>7. \A o \in Ops : ResponseStays(o)
  BY <1>2, <1>5, <1>6, Zenon DEF ResponseStays
<1>8. SysTypeOK'
  BY <1>2, Zenon DEF SysInv, SysTypeOK
<1>9. \A o \in Ops : RequestOK(o)'
  <2> SUFFICES ASSUME NEW o \in Ops
               PROVE  RequestOK(o)'
    OBVIOUS
  <2>1. RequestOK(o)
    BY DEF SysInv
  <2>2. \A a \in before[o] : replies'[a] # <<>>
    BY <1>5, <2>1, Zenon DEF RequestOK
  <2> QED
    BY <1>2, <1>5, <1>6, <2>1, <2>2, Zenon DEF RequestOK, Request, LookupReq,
       GetAttrReq, MkdirReq, OpenDirReq
<1>10. Keeps /\ Grows
  BY <1>2, TreeUnchanged DEF SysInv
<1> QED
  BY <1>2, <1>3, <1>4, <1>7, <1>8, <1>9, <1>10, QuietStep, Zenon DEF Quiet, Keeps

\* An operation that was answered had its response, and the answer is what Finish
\* makes of it.
LEMMA AnsweredHas ==
    ASSUME SysInv, NEW o \in Ops, replies[o] # <<>>
    PROVE  /\ kind[o] \in Kinds /\ rpc[o] \in Outcomes
           /\ resp[o] # NoResp /\ Given(o) = resp[o] /\ resp[o].code = rpc[o]
           /\ o \notin waiting /\ serving # o
           /\ replies[o] = FinishOutcome(o).reply
<1>1. FCInv /\ OpOK(o) /\ RequestOK(o) /\ SysTypeOK
  BY DEF SysInv, FCInv
<1>2. /\ done[o] /\ pc[o] \in {"registered", "returned"} /\ rpc[o] # "sent"
      /\ replies[o] = FinishOutcome(o).reply
  BY <1>1, Zenon DEF OpOK
<1>3. kind[o] \in Kinds /\ rpc[o] \in Outcomes
  BY <1>1, <1>2 DEF FCInv, TypeOK, OpOK
<1>4. rpc[o] # "failed"
  BY <1>2, <1>3, ReplyOf
<1>5. rpc[o] \notin {"none", "sent", "failed"}
  BY <1>2, <1>3, <1>4 DEF Outcomes, Responses, ErrorCodes
<1>6. resp[o] # NoResp /\ resp[o].code = rpc[o]
  BY <1>1, <1>5, Zenon DEF RequestOK
<1>7. serving # o
  BY <1>1, <1>6, Zenon DEF SysTypeOK
<1>8. Given(o) = resp[o]
  BY <1>7 DEF Given
<1>9. o \notin waiting
  BY <1>1, <1>6, <1>8, Zenon DEF RequestOK
<1> QED
  BY <1>2, <1>3, <1>6, <1>7, <1>8, <1>9

\* An answer with an entry is a response with an inode number.
LEMMA EntryIsFound ==
    ASSUME SysInv, NEW o \in Ops, HasEntry(o)
    PROVE  Found(o) /\ EntryIno(o) = Given(o).id
<1>1. replies[o] = <<"ok">> /\ kind[o] \in {"lookup", "mkdir"} /\ replies[o] # <<>>
  BY DEF HasEntry
<1>2. rpc[o] = "kOK" /\ Given(o) = resp[o] /\ resp[o] # NoResp /\ resp[o].code = rpc[o]
  BY <1>1, AnsweredHas, ReplyOf
<1> QED
  BY <1>1, <1>2, Zenon DEF Found, EntryIno

\* The kernel names directories that were made, or the root.
LEMMA KnownStored ==
    ASSUME SysInv
    PROVE  Known \subseteq Ids
<1>1. ASSUME NEW o \in Ops, HasEntry(o)
      PROVE  EntryIno(o) \in Ids
  <2>1. Found(o) /\ EntryIno(o) = Given(o).id
    BY <1>1, EntryIsFound
  <2>2. EntryIno(o) \in used
    BY <2>1, Zenon DEF SysInv, FoundOK, Belongs
  <2> QED
    BY <2>2, Zenon DEF SysInv, TreeInv
<1> QED
  BY <1>1, FuseSystemAssumption DEF Known

\* A request of the kernel arrives.
LEMMA CallOK ==
    ASSUME SysInv, NEW o \in Ops, Call(o)
    PROVE  SysInv' /\ [Next]_vars /\ Quiet
<1>1. PICK k \in Kinds, id \in Known, name \in Names :
          /\ StartCall(o, k)
          /\ args' = [args EXCEPT ![o] = <<id, name>>]
          /\ req' = [req EXCEPT ![o] = Request(k, id, name)]
  BY Zenon DEF Call
<1>2. /\ answer = NoResp /\ waiting' = waiting \cup {o}
      /\ before' = [before EXCEPT ![o] = {q \in Ops : IsAnswered(q)}]
      /\ UNCHANGED <<tree, used, unordered, answer, serving, crashes, made, era, resp>>
  BY Zenon DEF Call, server
<1>3. Next
  BY <1>1, Zenon DEF Next
<1>4. FCInv'
  BY <1>3, FCStep DEF SysInv
<1>5. /\ pc[o] = "none" /\ pc' = [pc EXCEPT ![o] = "called"]
      /\ kind' = [kind EXCEPT ![o] = k] /\ rpc' = [rpc EXCEPT ![o] = "sent"]
      /\ replies' = replies
  BY <1>1, Zenon DEF StartCall
<1>6. /\ pc'[o] = "called" /\ kind'[o] = k /\ rpc'[o] = "sent"
      /\ \A q \in Ops \ {o} : pc'[q] = pc[q] /\ kind'[q] = kind[q] /\ rpc'[q] = rpc[q]
  BY <1>5, Zenon DEF SysInv, FCInv, TypeOK
<1>7. /\ args'[o] = <<id, name>> /\ req'[o] = Request(k, id, name)
      /\ before'[o] = {q \in Ops : IsAnswered(q)}
      /\ \A q \in Ops \ {o} : args'[q] = args[q] /\ req'[q] = req[q] /\ before'[q] = before[q]
  BY <1>1, <1>2, Zenon DEF SysInv, SysTypeOK
<1>8. \A q \in Ops : Given(q)' = Given(q)
  BY <1>2, Zenon DEF Given
<1>9. RequestOK(o)
  BY DEF SysInv
<1>10. Given(o) = NoResp /\ made[o] = 0 /\ resp[o] = NoResp
  <2>1. Given(o) = NoResp /\ made[o] = 0
    BY <1>5, <1>9, Zenon DEF RequestOK
  <2>2. serving # o
    BY <1>2, FuseSystemAssumption DEF SysInv, SysTypeOK, Nobody
  <2> QED
    BY <2>1, <2>2, Zenon DEF Given
<1>11. \A q \in Ops : ResponseStays(q)
  BY <1>2, <1>6, <1>7, <1>8, <1>10, Zenon DEF ResponseStays
<1>12. SysTypeOK'
  <2>1. waiting' \subseteq Ops
    BY <1>2, Zenon DEF SysInv, SysTypeOK
  <2>2. DOMAIN req' = Ops /\ DOMAIN args' = Ops /\ DOMAIN before' = Ops
    BY <1>1, <1>2, Zenon DEF SysInv, SysTypeOK
  <2> QED
    BY <1>2, <2>1, <2>2, Zenon DEF SysInv, SysTypeOK
<1>13. RequestOK(o)'
  <2>1. args'[o][1] = id /\ args'[o][2] = name
    <3>1. <<id, name>>[1] = id /\ <<id, name>>[2] = name
      OBVIOUS
    <3> QED
      BY <1>7, <3>1, Zenon
  <2>2. req'[o] = Request(kind'[o], args'[o][1], args'[o][2])
    BY <1>6, <1>7, <2>1, Zenon
  <2>3. args'[o] \in Ids \X Names
    <3>1. id \in Ids
      BY KnownStored
    <3>2. <<id, name>> \in Ids \X Names
      BY <3>1
    <3> QED
      BY <1>7, <3>2, Zenon
  <2>4. \A a \in before'[o] : a \in Ops /\ replies'[a] # <<>>
    BY <1>5, <1>7 DEF IsAnswered
  <2>5. pc'[o] # "none" /\ rpc'[o] \in {"none", "sent", "failed"}
    BY <1>6
  <2>6. era'[o] \in 0..crashes'
    BY <1>2, <1>9, Zenon DEF RequestOK
  <2>7. Given(o)' = NoResp /\ made'[o] = 0 /\ resp'[o] = NoResp
    BY <1>2, <1>8, <1>10, Zenon
  <2> QED
    BY <2>2, <2>3, <2>4, <2>5, <2>6, <2>7, Zenon DEF RequestOK, Request
<1>14. \A q \in Ops \ {o} : RequestOK(q)'
  <2> SUFFICES ASSUME NEW q \in Ops \ {o}
               PROVE  RequestOK(q)'
    OBVIOUS
  <2>1. RequestOK(q) /\ (q \in waiting' <=> q \in waiting)
    BY <1>2 DEF SysInv
  <2> QED
    BY <1>2, <1>5, <1>6, <1>7, <1>8, <2>1, Zenon DEF RequestOK, Request, LookupReq,
       GetAttrReq, MkdirReq, OpenDirReq
<1>15. \A q \in Ops : RequestOK(q)'
  BY <1>13, <1>14, Zenon
<1>16. Keeps /\ Grows
  BY <1>2, TreeUnchanged DEF SysInv
<1> QED
  BY <1>2, <1>3, <1>4, <1>11, <1>12, <1>15, <1>16, QuietStep, Zenon DEF Quiet, Keeps

\* The client, the requests and the responses are as before.
LEMMA SameRequests ==
    ASSUME SysInv, UNCHANGED <<kind, pc, replies, args, before, made, era, req, resp, serving>>,
           answer' = answer \/ serving = Nobody, crashes' \in Nat, crashes <= crashes',
           rpc' = rpc, waiting' \subseteq waiting
    PROVE  \A o \in Ops : RequestOK(o)' /\ ResponseStays(o)
<1> SUFFICES ASSUME NEW o \in Ops
             PROVE  RequestOK(o)' /\ ResponseStays(o)
  OBVIOUS
<1>1. RequestOK(o) /\ Nobody \notin Ops
  BY FuseSystemAssumption DEF SysInv, Nobody
<1>2. Given(o)' = Given(o)
  BY <1>1, Zenon DEF Given
<1>3. o \in waiting' => o \in waiting
  OBVIOUS
<1>4. era'[o] \in 0..crashes'
  <2>1. era'[o] = era[o] /\ era[o] \in 0..crashes
    BY <1>1, Zenon DEF RequestOK
  <2>2. crashes \in Nat
    BY DEF SysInv, SysTypeOK
  <2> QED
    BY <2>1, <2>2
<1>5. RequestOK(o)'
  BY <1>1, <1>2, <1>3, <1>4, Zenon DEF RequestOK, Request, LookupReq, GetAttrReq,
     MkdirReq, OpenDirReq
<1> QED
  BY <1>2, <1>5, Zenon DEF ResponseStays

LEMMA SameClient ==
    ASSUME SysInv, UNCHANGED client
    PROVE  FCInv' /\ UNCHANGED vars
<1>1. UNCHANGED vars
  BY Zenon DEF client, vars
<1> QED
  BY <1>1, FCStep DEF SysInv

\* The NameNode makes a directory for another client.
LEMMA ServeOtherOK ==
    ASSUME SysInv, ServeOther
    PROVE  SysInv' /\ [Next]_vars /\ Quiet
<1>1. PICK p \in Ids, n \in Names, id \in Ids \ {0} : Tree!Create(p, n, id)
  BY Zenon DEF ServeOther
<1>2. /\ UNCHANGED client
      /\ UNCHANGED <<args, before, made, era, serving, crashes, req, waiting, resp>>
  BY Zenon DEF ServeOther, history
<1>3. FCInv' /\ UNCHANGED vars
  BY <1>2, SameClient
<1>4. /\ answer = NoResp /\ answer' = [req |-> <<"Mkdirs", p, n>>, code |-> "kOK", id |-> id]
  BY <1>1 DEF Tree!Create, Tree!NoAnswer, NoResp
<1>5. serving = Nobody /\ Nobody \notin Ops /\ crashes \in Nat
  BY <1>4, FuseSystemAssumption DEF SysInv, SysTypeOK, Nobody
<1>6. Keeps /\ Grows
  BY <1>1, TreeCreates, Zenon DEF SysInv
<1>7. SysTypeOK'
  BY <1>2, <1>5, Zenon DEF SysInv, SysTypeOK
<1>8. crashes <= crashes' /\ crashes' \in Nat
  BY <1>2, <1>5
<1>9. UNCHANGED <<kind, pc, rpc, replies>>
  BY <1>3, Zenon DEF vars
<1>10. \A o \in Ops : RequestOK(o)' /\ ResponseStays(o)
  BY <1>2, <1>5, <1>8, <1>9, SameRequests
<1> QED
  BY <1>2, <1>3, <1>6, <1>7, <1>10, QuietStep, Zenon DEF Quiet, Keeps

\* The NameNode stops while it handles a Mkdirs.
LEMMA ServeStopsOK ==
    ASSUME SysInv, NEW o \in Ops, ServeStops(o)
    PROVE  SysInv' /\ [Next]_vars /\ Quiet
<1>1. PICK id \in Ids \ {0} : Tree!Waste(id)
  BY Zenon DEF ServeStops
<1>2. /\ UNCHANGED client /\ waiting' = waiting \ {o}
      /\ UNCHANGED <<args, before, made, era, serving, crashes, req, resp>>
  BY Zenon DEF ServeStops, history
<1>3. FCInv' /\ UNCHANGED vars
  BY <1>2, SameClient
<1>4. answer' = answer
  BY <1>1, Zenon DEF Tree!Waste
<1>5. Keeps /\ Grows
  BY <1>1, TreeWastes, Zenon DEF SysInv
<1>6. waiting' \subseteq waiting
  BY <1>2
<1>7. SysTypeOK'
  BY <1>2, <1>4, <1>6, Zenon DEF SysInv, SysTypeOK
<1>8. crashes <= crashes' /\ crashes' \in Nat
  BY <1>2 DEF SysInv, SysTypeOK
<1>9. UNCHANGED <<kind, pc, rpc, replies>>
  BY <1>3, Zenon DEF vars
<1>10. \A q \in Ops : RequestOK(q)' /\ ResponseStays(q)
  BY <1>2, <1>4, <1>6, <1>8, <1>9, SameRequests
<1> QED
  BY <1>2, <1>3, <1>5, <1>7, <1>10, QuietStep, Zenon DEF Quiet, Keeps

\* The NameNode crashes.
LEMMA CrashOK ==
    ASSUME SysInv, NEW n \in 1..Len(tree), Crash(n)
    PROVE  SysInv' /\ [Next]_vars /\ Quiet
<1>1. /\ UNCHANGED client /\ waiting' = {} /\ crashes' = crashes + 1 /\ Tree!Lose(n)
      /\ UNCHANGED <<args, before, made, era, serving, req, resp>>
  BY Zenon DEF Crash, history
<1>2. FCInv' /\ UNCHANGED vars
  BY <1>1, SameClient
<1>3. answer' = answer
  BY <1>1 DEF Tree!Lose
<1>4. Keeps
  BY <1>1, TreeLoses DEF SysInv
<1>5. crashes <= crashes' /\ crashes' \in Nat
  BY <1>1 DEF SysInv, SysTypeOK
<1>6. SysTypeOK'
  BY <1>1, <1>3, <1>5, Zenon DEF SysInv, SysTypeOK
<1>7. UNCHANGED <<kind, pc, rpc, replies>>
  BY <1>2, Zenon DEF vars
<1>8. \A o \in Ops : RequestOK(o)' /\ ResponseStays(o)
  BY <1>1, <1>3, <1>5, <1>7, SameRequests
<1> QED
  BY <1>1, <1>2, <1>4, <1>6, <1>8, QuietStep, Zenon DEF Quiet, Keeps

\* An RPC ends without a response.
LEMMA FailOK ==
    ASSUME SysInv, NEW o \in Ops, Fail(o)
    PROVE  SysInv' /\ [Next]_vars /\ Quiet
<1>1. /\ Respond(o, "failed") /\ answer = NoResp
      /\ UNCHANGED <<tree, used, unordered, answer, serving, crashes, args, before, made, era>>
      /\ UNCHANGED <<req, waiting, resp>>
  BY Zenon DEF Fail, server, history
<1>2. /\ rpc[o] = "sent" /\ rpc' = [rpc EXCEPT ![o] = "failed"]
      /\ UNCHANGED <<kind, pc, replies>>
  BY <1>1, Zenon DEF Respond
<1>3. "failed" \in Outcomes
  BY DEF Outcomes
<1>4. Next
  BY <1>1, <1>2, <1>3, Zenon DEF RpcEnds, Next
<1>5. FCInv'
  BY <1>4, FCStep DEF SysInv
<1>6. rpc'[o] = "failed" /\ \A q \in Ops \ {o} : rpc'[q] = rpc[q]
  BY <1>2 DEF SysInv, FCInv
<1>7. \A q \in Ops : rpc'[q] = rpc[q] \/ {rpc[q], rpc'[q]} \subseteq {"none", "sent", "failed"}
  BY <1>2, <1>6
<1>8. \A q \in Ops : Given(q)' = Given(q) /\ RequestOK(q)
  BY <1>1, Zenon DEF Given, SysInv
<1>9. \A q \in Ops : RequestOK(q)'
  <2> SUFFICES ASSUME NEW q \in Ops
               PROVE  RequestOK(q)'
    OBVIOUS
  <2>1. RequestOK(q) /\ Given(q)' = Given(q)
    BY <1>8
  <2>2. IF rpc'[q] \in {"none", "sent", "failed"} THEN resp'[q] = NoResp
        ELSE resp'[q] # NoResp /\ resp'[q].code = rpc'[q]
    BY <1>1, <1>7, <2>1, Zenon DEF RequestOK
  <2> QED
    BY <1>1, <1>2, <2>1, <2>2, Zenon DEF RequestOK, Request, LookupReq, GetAttrReq,
       MkdirReq, OpenDirReq
<1>10. \A q \in Ops : ResponseStays(q)
  BY <1>1, <1>2, <1>8, Zenon DEF ResponseStays
<1>11. SysTypeOK'
  BY <1>1, Zenon DEF SysInv, SysTypeOK
<1>12. Keeps /\ Grows
  BY <1>1, TreeUnchanged DEF SysInv
<1> QED
  BY <1>1, <1>4, <1>5, <1>9, <1>10, <1>11, <1>12, QuietStep, Zenon DEF Quiet, Keeps

\* A response reaches its operation, or the operation has given it up.
LEMMA DeliverOK ==
    ASSUME SysInv, Deliver
    PROVE  SysInv' /\ [Next]_vars /\ Quiet
<1>1. /\ answer # NoResp /\ answer' = NoResp /\ serving' = Nobody /\ Nobody \notin Ops
      /\ UNCHANGED <<tree, used, unordered, crashes, args, before, made, era, req, waiting>>
  BY FuseSystemAssumption DEF Deliver, history, Nobody, Tree!Sent, Tree!NoAnswer, NoResp
<1>2. Keeps /\ Grows
  BY <1>1, TreeUnchanged DEF SysInv
<1>3. CASE /\ Reaches(serving)
           /\ resp' = [resp EXCEPT ![serving] = answer]
           /\ rpc' = [rpc EXCEPT ![serving] = answer.code]
           /\ UNCHANGED <<session, kind, pc, done, replies, freed>>
  <2> DEFINE o == serving
  <2>1. o \in Ops /\ RequestOK(o)
    BY <1>3, Zenon DEF SysInv, SysTypeOK, Reaches
  <2>2. /\ resp' = [resp EXCEPT ![o] = answer] /\ Respond(o, answer.code)
        /\ rpc[o] = "sent"
    BY <1>3, Zenon DEF Reaches, Respond
  <2>3. Given(o) = answer /\ answer.code \in Responses
    <3>1. Given(o) = answer
      BY Zenon DEF Given
    <3> QED
      BY <1>1, <2>1, <3>1, Zenon DEF RequestOK
  <2>5. answer.code \in Outcomes /\ answer.code \notin {"none", "sent", "failed"}
    BY <2>3 DEF Outcomes, Responses, ErrorCodes
  <2>6. Next
    BY <2>1, <2>2, <2>5, Zenon DEF RpcEnds, Next
  <2>7. FCInv'
    BY <2>6, FCStep DEF SysInv
  <2>8. rpc' = [rpc EXCEPT ![o] = answer.code] /\ UNCHANGED <<kind, pc, replies>>
    BY <2>2, Zenon DEF Respond
  <2>9. /\ rpc'[o] = answer.code /\ resp'[o] = answer
        /\ \A q \in Ops \ {o} : rpc'[q] = rpc[q] /\ resp'[q] = resp[q]
    BY <2>1, <2>2, <2>8, Zenon DEF SysInv, SysTypeOK, FCInv
  <2>10. \A q \in Ops : Given(q)' = Given(q)
    BY <1>1, <2>9, Zenon DEF Given
  <2>11. \A q \in Ops : ResponseStays(q)
    BY <1>1, <2>8, <2>10, Zenon DEF ResponseStays
  <2>12. SysTypeOK'
    <3>1. DOMAIN resp' = Ops
      BY <2>2 DEF SysInv, SysTypeOK
    <3> QED
      BY <1>1, <3>1, Zenon DEF SysInv, SysTypeOK
  <2>13. \A q \in Ops : RequestOK(q)'
    <3> SUFFICES ASSUME NEW q \in Ops
                 PROVE  RequestOK(q)'
      OBVIOUS
    <3>1. RequestOK(q) /\ Given(q)' = Given(q)
      BY <2>10 DEF SysInv
    <3>2. IF rpc'[q] \in {"none", "sent", "failed"} THEN resp'[q] = NoResp
          ELSE resp'[q] # NoResp /\ resp'[q].code = rpc'[q]
      BY <1>1, <2>5, <2>9, <3>1, Zenon DEF RequestOK
    <3> QED
      BY <1>1, <2>8, <3>1, <3>2, Zenon DEF RequestOK, Request, LookupReq, GetAttrReq,
         MkdirReq, OpenDirReq
  <2> QED
    BY <1>1, <1>2, <2>6, <2>7, <2>11, <2>12, <2>13, QuietStep, Zenon DEF Quiet, Keeps
<1>4. CASE UNCHANGED <<client, resp>>
  <2>1. UNCHANGED client /\ resp' = resp
    BY <1>4, Zenon
  <2>2. FCInv' /\ UNCHANGED vars
    BY <2>1, SameClient
  <2>3. UNCHANGED <<kind, pc, rpc, replies>>
    BY <2>2, Zenon DEF vars
  <2>4. \A q \in Ops : Given(q)' = NoResp \/ Given(q)' = Given(q)
    BY <1>1, <2>1, Zenon DEF Given, SysInv, SysTypeOK
  <2>5. \A q \in Ops : ResponseStays(q)
    BY <1>1, <2>3, <2>4, Zenon DEF ResponseStays
  <2>6. SysTypeOK'
    BY <1>1, <2>1, Zenon DEF SysInv, SysTypeOK
  <2>7. \A q \in Ops : RequestOK(q)'
    <3> SUFFICES ASSUME NEW q \in Ops
                 PROVE  RequestOK(q)'
      OBVIOUS
    <3>1. RequestOK(q) /\ (Given(q)' = NoResp \/ Given(q)' = Given(q))
      BY <2>4 DEF SysInv
    <3> QED
      BY <1>1, <2>1, <2>3, <3>1, Zenon DEF RequestOK, Request, LookupReq, GetAttrReq,
         MkdirReq, OpenDirReq
  <2> QED
    BY <1>1, <1>2, <2>2, <2>5, <2>6, <2>7, QuietStep, Zenon DEF Quiet, Keeps
<1> QED
  BY <1>3, <1>4, Zenon DEF Deliver

\* What becomes of a request that the NameNode handles, and of the others.
Handles(o) ==
    /\ kind[o] \in Kinds /\ Handle(req[o])
    /\ req[o] = Request(kind[o], args[o][1], args[o][2]) /\ args[o] \in Ids \X Names
    /\ UNCHANGED <<crashes, kind, args, before>> /\ unordered \subseteq unordered'
    /\ AnswersOnly(o) \/ FindsName(o) \/ MakesDir(o)
    /\ Given(o)' = answer' /\ era'[o] = crashes
    /\ \A q \in Ops \ {o} : ResponseStays(q)
    /\ \A q \in Ops : o \notin before[q]

\* The NameNode handles a request of this client.
LEMMA ServeOK ==
    ASSUME SysInv, NEW o \in Ops, Serve(o)
    PROVE  SysInv' /\ [Next]_vars /\ Handles(o)
<1>1. /\ o \in waiting /\ Handle(req[o]) /\ waiting' = waiting \ {o} /\ serving' = o
      /\ made' = [made EXCEPT ![o] = IF tree' # tree THEN answer'.id ELSE 0]
      /\ era' = [era EXCEPT ![o] = crashes]
      /\ UNCHANGED client /\ UNCHANGED <<crashes, args, before, req, resp>>
  BY Zenon DEF Serve
<1>2. FCInv' /\ UNCHANGED vars /\ UNCHANGED <<kind, pc, rpc, replies>>
  <2>1. FCInv' /\ UNCHANGED vars
    BY <1>1, SameClient
  <2> QED
    BY <2>1, Zenon DEF vars
<1>3. /\ RequestOK(o) /\ SysTypeOK /\ TreeInv
      /\ \A q \in Ops : FoundOK(q) /\ RequestOK(q)
      /\ \A a, b \in Ops : OneMeaning(a, b) /\ FindsAgain(a, b)
  BY DEF SysInv
<1>4. /\ pc[o] # "none" /\ Given(o) = NoResp /\ made[o] = 0
      /\ req[o] = Request(kind[o], args[o][1], args[o][2])
      /\ args[o] \in Ids \X Names /\ args[o] = <<args[o][1], args[o][2]>>
  <2>1. args[o] \in Ids \X Names
    BY <1>1, <1>3, Zenon DEF RequestOK
  <2>2. args[o] = <<args[o][1], args[o][2]>>
    BY <2>1
  <2> QED
    BY <1>1, <1>3, <2>1, <2>2, Zenon DEF RequestOK
<1>5. kind[o] \in Kinds
  BY <1>4, Zenon DEF SysInv, FCInv, TypeOK, OpOK
<1>6. /\ answer = NoResp /\ answer' # NoResp /\ answer'.code \in Responses
      /\ AnswersOnly(o) \/ FindsName(o) \/ MakesDir(o)
  BY <1>1, <1>3, <1>4, <1>5, Handled, Zenon
<1>7. serving = Nobody /\ Nobody \notin Ops /\ crashes \in Nat
  BY <1>3, <1>6, FuseSystemAssumption DEF SysTypeOK, Nobody
<1>8. Given(o)' = answer' /\ \A q \in Ops \ {o} : Given(q)' = Given(q)
  BY <1>1, <1>7, Zenon DEF Given
<1>9. /\ made'[o] = (IF tree' # tree THEN answer'.id ELSE 0) /\ era'[o] = crashes
      /\ \A q \in Ops \ {o} : made'[q] = made[q] /\ era'[q] = era[q]
      /\ DOMAIN made' = Ops /\ DOMAIN era' = Ops
  BY <1>1, <1>3, Zenon DEF SysTypeOK
<1>10. \A q \in Ops \ {o} : ResponseStays(q)
  BY <1>1, <1>2, <1>8, <1>9, Zenon DEF ResponseStays
<1>11. Keeps /\ Grows /\ (MakesDir(o) => answer'.id \notin used \/ answer'.id \in unordered')
  <2>1. CASE UNCHANGED <<tree, used, unordered>> /\ ~MakesDir(o)
    BY <1>3, <2>1, TreeUnchanged
  <2>2. CASE MakesDir(o)
    BY <1>3, <2>2, TreeCreates, Zenon DEF MakesDir
  <2> QED
    BY <1>6, <2>1, <2>2, Zenon DEF AnswersOnly, FindsName
<1>12. resp[o] = NoResp /\ rpc[o] \in {"none", "sent", "failed"}
  <2>1. resp[o] = NoResp
    BY <1>4, <1>7, Zenon DEF Given
  <2> QED
    BY <1>3, <2>1, Zenon DEF RequestOK
<1>13. \A q \in Ops : o \notin before[q]
  <2>1. replies[o] = <<>>
    BY <1>1, AnsweredHas, Zenon
  <2>2. \A q \in Ops : \A a \in before[q] : replies[a] # <<>>
    BY <1>3, Zenon DEF RequestOK
  <2> QED
    BY <2>1, <2>2, Zenon
<1>14. SysTypeOK'
  <2>1. waiting' \subseteq Ops
    BY <1>1, <1>3, Zenon DEF SysTypeOK
  <2> QED
    BY <1>1, <1>3, <1>6, <1>9, <1>12, <2>1, Zenon DEF SysTypeOK
<1>15. RequestOK(o)'
  <2>1. answer'.code # "kOK" => made'[o] = 0
    BY <1>6, <1>9, Zenon DEF AnswersOnly, FindsName, MakesDir
  <2>2. o \notin waiting' /\ era'[o] \in 0..crashes'
    BY <1>1, <1>7, <1>9
  <2> QED
    BY <1>1, <1>2, <1>3, <1>4, <1>6, <1>8, <1>12, <2>1, <2>2, Zenon DEF RequestOK, Request,
       LookupReq, GetAttrReq, MkdirReq, OpenDirReq
<1>16. \A q \in Ops \ {o} : RequestOK(q)'
  <2> SUFFICES ASSUME NEW q \in Ops \ {o}
               PROVE  RequestOK(q)'
    OBVIOUS
  <2>1. RequestOK(q) /\ (q \in waiting' <=> q \in waiting)
    BY <1>1, <1>3
  <2> QED
    BY <1>1, <1>2, <1>8, <1>9, <2>1, Zenon DEF RequestOK, Request, LookupReq,
       GetAttrReq, MkdirReq, OpenDirReq
<1>17. \A q \in Ops \ {o} : FoundOK(q)'
  BY <1>1, <1>3, <1>7, <1>10, <1>11, FoundStays, Zenon
<1>18. FoundOK(o)'
  <2>1. CASE AnswersOnly(o)
    BY <1>2, <1>8, <2>1, Zenon DEF AnswersOnly, FoundOK, Found
  <2>2. CASE FindsName(o)
    <3>1. /\ args[o] \in DOMAIN Tree!now.entry /\ answer'.id = Tree!now.entry[args[o]]
          /\ Tree!now' = Tree!now
      BY <2>2, Zenon DEF FindsName, Tree!now
    <3>2. Belongs(tree', used', unordered', answer'.id, args[o])
      BY <1>3, <1>11, <3>1, NowOK, Zenon DEF Keeps
    <3>3. Tree!now'.entry[args[o]] >= answer'.id
      BY <1>3, <3>1, NowOK
    <3> QED
      BY <1>1, <1>8, <3>1, <3>2, <3>3, Zenon DEF FoundOK, IsOrTakesOver
  <2>3. CASE MakesDir(o)
    <3>1. /\ answer'.id \in Ids \ {0} /\ Tree!Create(args[o][1], args[o][2], answer'.id)
      BY <2>3 DEF MakesDir
    <3>2. /\ Belongs(tree', used', unordered', answer'.id, args[o])
          /\ args[o] \in DOMAIN Tree!now'.entry /\ Tree!now'.entry[args[o]] = answer'.id
      <4> DEFINE key == <<args[o][1], args[o][2]>>
      <4>1. /\ Belongs(tree', used', unordered', answer'.id, key)
            /\ key \in DOMAIN Tree!now'.entry /\ Tree!now'.entry[key] = answer'.id
        <5>1. \A p, n : \A id \in Ids \ {0} : Tree!Create(p, n, id) =>
                 /\ Belongs(tree', used', unordered', id, <<p, n>>)
                 /\ <<p, n>> \in DOMAIN Tree!now'.entry /\ Tree!now'.entry[<<p, n>>] = id
          BY <1>3, TreeCreates, Zenon
        <5>2. ASSUME NEW p, NEW n, NEW id, p = args[o][1], n = args[o][2], id = answer'.id
              PROVE  /\ Belongs(tree', used', unordered', id, <<p, n>>)
                     /\ <<p, n>> \in DOMAIN Tree!now'.entry /\ Tree!now'.entry[<<p, n>>] = id
          <6>1. id \in Ids \ {0} /\ Tree!Create(p, n, id)
            BY <3>1, <5>2
          <6> QED
            BY <5>1, <6>1, Zenon
        <5> QED
          BY <5>2, Zenon DEF key
      <4>2. args[o] = key
        BY <1>4, Zenon
      <4> HIDE DEF key
      <4> QED
        BY <4>1, <4>2, Zenon
    <3>3. Tree!now'.entry[args[o]] >= answer'.id
      <4>1. answer'.id \in Nat
        BY <3>1, FuseSystemAssumption, Zenon
      <4> QED
        BY <3>2, <4>1
    <3> QED
      BY <1>1, <1>8, <3>2, <3>3, Zenon DEF FoundOK, IsOrTakesOver
  <2> QED
    BY <1>6, <2>1, <2>2, <2>3
<1>19. ASSUME NEW a \in Ops, a # o, Found(a)', Found(o)', Given(a)'.id = Given(o)'.id,
              Given(o)'.id \notin unordered'
       PROVE  args[a] = args[o] /\ kind[o] = "lookup"
  <2>1. Found(a) /\ Given(a).id = answer'.id
    BY <1>2, <1>8, <1>19, Zenon DEF Found
  <2>2. Belongs(tree, used, unordered, answer'.id, args[a])
    BY <1>3, <2>1, Zenon DEF FoundOK
  <2>u. answer'.id \notin unordered' /\ answer'.id \notin unordered
    BY <1>8, <1>11, <1>19, Zenon DEF Keeps
  <2>3. ~MakesDir(o)
    BY <1>11, <2>2, <2>u, Zenon DEF Belongs
  <2>4. FindsName(o)
    BY <1>2, <1>6, <1>8, <1>19, <2>3, Zenon DEF Found, AnswersOnly
  <2>5. Len(tree) \in 1..Len(tree)
    BY <1>3 DEF TreeInv
  <2> QED
    BY <2>2, <2>4, <2>5, <2>u, Zenon DEF FindsName, Belongs, Tree!now
<1>20. \A a \in Ops : OneMeaning(a, o)' /\ OneMeaning(o, a)'
  <2>1. \A a \in Ops : OneMeaning(a, o)'
    BY <1>1, <1>2, <1>19, Zenon DEF OneMeaning
  <2>2. ASSUME NEW a \in Ops
        PROVE  OneMeaning(o, a)'
    <3>1. "lookup" # "mkdir"
      OBVIOUS
    <3> QED
      BY <1>1, <1>2, <1>19, <3>1, Zenon DEF OneMeaning
  <2> QED
    BY <2>1, <2>2
<1>21. \A a \in Ops : FindsAgain(a, o)' /\ FindsAgain(o, a)'
  <2>1. \A a \in Ops : FindsAgain(o, a)'
    BY <1>1, <1>13, Zenon DEF FindsAgain
  <2>2. ASSUME NEW a \in Ops, a # o, Found(a)', era'[a] = era'[o], kind[o] = "lookup",
               args[a] = args[o]
        PROVE  /\ answer'.code # "kNotFoundError"
               /\ Found(o)' => answer'.id >= Given(a)'.id \/ answer'.id \in unordered'
    <3>1. Found(a) /\ Given(a)' = Given(a) /\ era[a] = crashes
      BY <1>2, <1>8, <1>9, <2>2, Zenon DEF Found
    <3>2. /\ args[o] \in DOMAIN Tree!now.entry
          /\ \/ Tree!now.entry[args[o]] >= Given(a).id
             \/ Tree!now.entry[args[o]] \in unordered
      BY <1>3, <2>2, <3>1, Zenon DEF FoundOK, IsOrTakesOver
    <3>3. CASE AnswersOnly(o)
      BY <1>2, <1>8, <2>2, <3>2, <3>3, Zenon DEF AnswersOnly, Found
    <3>4. CASE FindsName(o)
      <4>1. answer'.id = Tree!now.entry[args[o]] /\ answer'.code = "kOK"
        BY <3>4 DEF FindsName
      <4>2. unordered \subseteq unordered' /\ answer'.code # "kNotFoundError"
        BY <1>11, <4>1 DEF Keeps
      <4> QED
        BY <3>1, <3>2, <4>1, <4>2, Zenon
    <3>5. CASE MakesDir(o)
      BY <2>2, <3>5 DEF MakesDir
    <3> QED
      BY <1>6, <3>3, <3>4, <3>5
  <2>3. \A a \in Ops : FindsAgain(a, o)'
    BY <1>1, <1>2, <1>8, <1>13, <2>2, Zenon DEF FindsAgain, IsOrTakesOver
  <2> QED
    BY <2>1, <2>3
<1>22. \A a, b \in Ops \ {o} : OneMeaning(a, b)' /\ FindsAgain(a, b)'
  BY <1>3, <1>10, <1>11, PairsStay, Zenon DEF Keeps
<1>23. \A a, b \in Ops : OneMeaning(a, b)' /\ FindsAgain(a, b)'
  BY <1>20, <1>21, <1>22, Zenon
<1>24. \A q \in Ops : RequestOK(q)' /\ FoundOK(q)'
  BY <1>15, <1>16, <1>17, <1>18, Zenon
<1>25. SysInv' /\ [Next]_vars
  BY <1>2, <1>11, <1>14, <1>23, <1>24, Zenon DEF SysInv, Keeps
<1>u. unordered \subseteq unordered'
  BY <1>11, Zenon DEF Keeps
<1>26. Handles(o)
  BY <1>1, <1>2, <1>4, <1>5, <1>6, <1>8, <1>9, <1>10, <1>u, <1>13, Zenon DEF Handles
<1> QED
  BY <1>25, <1>26

LEMMA SysStep ==
    ASSUME SysInv, [SysNext]_sysvars
    PROVE  /\ SysInv' /\ [Next]_vars
           /\ Quiet \/ \E o \in Ops : Handles(o)
<1>1. CASE UNCHANGED sysvars
  <2>1. /\ UNCHANGED client
        /\ UNCHANGED <<tree, used, unordered, answer, serving, crashes, args, before, made, era>>
        /\ UNCHANGED <<req, waiting, resp>>
    BY <1>1, Zenon DEF sysvars, server, history
  <2>2. FCInv' /\ UNCHANGED vars
    BY <2>1, SameClient
  <2>3. UNCHANGED <<kind, pc, rpc, replies>>
    BY <2>2, Zenon DEF vars
  <2>4. crashes <= crashes' /\ crashes' \in Nat
    <3>1. crashes' = crashes /\ crashes \in Nat
      BY <2>1, Zenon DEF SysInv, SysTypeOK
    <3> QED
      BY <3>1
  <2>5. \A o \in Ops : RequestOK(o)' /\ ResponseStays(o)
    BY <2>1, <2>3, <2>4, SameRequests
  <2>6. SysTypeOK'
    BY <2>1, Zenon DEF SysInv, SysTypeOK
  <2>7. Keeps /\ Grows
    BY <2>1, TreeUnchanged DEF SysInv
  <2> QED
    BY <2>1, <2>2, <2>5, <2>6, <2>7, QuietStep, Zenon DEF Quiet, Keeps
<1>2. CASE ClientStep
  BY <1>2, ClientStepOK
<1>3. CASE ServeOther
  BY <1>3, ServeOtherOK
<1>4. CASE Deliver
  BY <1>4, DeliverOK
<1>5. ASSUME NEW o \in Ops, Call(o) \/ Serve(o) \/ ServeStops(o) \/ Fail(o)
      PROVE  SysInv' /\ [Next]_vars /\ (Quiet \/ Handles(o))
  BY <1>5, CallOK, ServeOK, ServeStopsOK, FailOK, Zenon
<1>6. ASSUME NEW n \in 1..Len(tree), Crash(n)
      PROVE  SysInv' /\ [Next]_vars /\ Quiet
  BY <1>6, CrashOK
<1> QED
  BY <1>1, <1>2, <1>3, <1>4, <1>5, <1>6, Zenon DEF SysNext, SysEnded

LEMMA SysInitOK ==
    ASSUME SysInit
    PROVE  SysInv
<1>1. FCInv
  BY FCInit DEF SysInit
<1>2. /\ tree = <<[dirs |-> Tree!EmptyMap, entry |-> Tree!EmptyMap]>>
      /\ used = {} /\ unordered = {}
      /\ answer = NoResp
  BY DEF SysInit, Tree!Init, Tree!NoAnswer, NoResp
<1>3. TreeInv
  <2> DEFINE e == [dirs |-> Tree!EmptyMap, entry |-> Tree!EmptyMap]
  <2>1. DOMAIN Tree!EmptyMap = {} /\ e.entry = Tree!EmptyMap
    BY DEF Tree!EmptyMap
  <2> HIDE DEF e
  <2>2. <<e>> \in Seq({e}) /\ Len(<<e>>) = 1 /\ \A i \in 1..1 : <<e>>[i] = e
    OBVIOUS
  <2>3. tree = <<e>>
    BY <1>2 DEF e
  <2>4. IsSeq(tree) /\ Len(tree) = 1
    BY <2>2, <2>3, Zenon DEF IsSeq
  <2>5. \A i \in 1..Len(tree) : \A k \in DOMAIN tree[i].entry : FALSE
    BY <2>1, <2>2, <2>3
  <2> QED
    BY <1>2, <2>4, <2>5 DEF TreeInv
<1>4. /\ waiting = {} /\ serving = Nobody /\ crashes = 0 /\ Nobody \notin Ops
      /\ req = [o \in Ops |-> <<>>] /\ resp = [o \in Ops |-> NoResp]
      /\ args = [o \in Ops |-> <<>>] /\ before = [o \in Ops |-> {}]
      /\ made = [o \in Ops |-> 0] /\ era = [o \in Ops |-> 0]
      /\ pc = [o \in Ops |-> "none"] /\ rpc = [o \in Ops |-> "none"]
  BY FuseSystemAssumption DEF SysInit, Init, Nobody
<1>5. SysTypeOK
  BY <1>2, <1>4 DEF SysTypeOK
<1>6. \A o \in Ops : Given(o) = NoResp
  BY <1>2, <1>4 DEF Given
<1>7. ASSUME NEW o \in Ops PROVE RequestOK(o)
  <2>1. /\ pc[o] = "none" /\ o \notin waiting /\ Given(o) = NoResp /\ made[o] = 0
        /\ rpc[o] = "none" /\ resp[o] = NoResp /\ before[o] = {}
    BY <1>4, <1>6, Zenon
  <2>2. era[o] \in 0..crashes
    BY <1>4
  <2> QED
    BY <2>1, <2>2, Zenon DEF RequestOK
<1>8. \A o \in Ops : ~Found(o)
  BY <1>6 DEF Found
<1>9. \A o \in Ops : FoundOK(o)
  BY <1>8, Zenon DEF FoundOK
<1>10. \A a, b \in Ops : OneMeaning(a, b) /\ FindsAgain(a, b)
  BY <1>8, Zenon DEF OneMeaning, FindsAgain
<1> QED
  BY <1>1, <1>3, <1>5, <1>7, <1>9, <1>10 DEF SysInv

LEMMA SysAlways == SysInit /\ [][SysNext]_sysvars => []SysInv
BY SysInitOK, SysStep, PTL

------------------------------------------------------------------------------
\* With the NameNode in the place of arbitrary responses every step of the client
\* is one that FuseClient allows: an RPC ends at most once, so a response that comes
\* after it has failed reaches no operation, and its code is one of StatusCode.
THEOREM SystemRunsClient == SysSpec => ImplementsFuseClient
<1>1. SysInit => Init
  BY DEF SysInit
<1>2. SysInv /\ [SysNext]_sysvars => [Next]_vars
  BY SysStep
<1> QED
  BY <1>1, <1>2, SysAlways, PTL DEF SysSpec, ImplementsFuseClient

\* The NameNode handles a request as the name space does.
LEMMA ServeIsTree ==
    ASSUME SysInv, NEW o \in Ops, Serve(o)
    PROVE  Tree!Next
<1>1. o \in waiting /\ Handle(req[o]) /\ RequestOK(o)
  BY Zenon DEF Serve, SysInv
<1>2. /\ pc[o] # "none" /\ args[o] \in Ids \X Names
      /\ req[o] = Request(kind[o], args[o][1], args[o][2])
  BY <1>1, Zenon DEF RequestOK
<1> DEFINE p == args[o][1]
           n == args[o][2]
<1>3. p \in Ids /\ n \in Names /\ kind[o] \in Kinds /\ 0 \in Names \cup {0} /\ 0 \in Limits
  BY <1>2, FuseSystemAssumption, Zenon DEF SysInv, FCInv, TypeOK, OpOK
<1> HIDE DEF p, n
<1>4. CASE kind[o] = "mkdir"
  <2>1. req[o] = <<"Mkdirs", p, n>>
    BY <1>2, <1>4 DEF Request, MkdirReq, p, n
  <2>2. Tree!Mkdirs(p, n)
    BY <1>1, <2>1 DEF Handle
  <2> QED
    BY <1>3, <2>2, Zenon DEF Tree!Next
<1>5. CASE kind[o] = "lookup"
  <2>1. req[o] = <<"Lookup", p, n>>
    BY <1>2, <1>5 DEF Request, LookupReq, p, n
  <2>2. Tree!Lookup(p, n)
    BY <1>1, <2>1 DEF Handle
  <2> QED
    BY <1>3, <2>2, Zenon DEF Tree!Next
<1>6. CASE kind[o] = "getattr"
  <2>1. req[o] = <<"GetInode", p>>
    BY <1>2, <1>6 DEF Request, GetAttrReq, p
  <2>2. Tree!GetInode(p)
    BY <1>1, <2>1 DEF Handle
  <2> QED
    BY <1>3, <2>2, Zenon DEF Tree!Next
<1>7. CASE kind[o] = "opendir"
  <2>1. req[o] = <<"ListDir", p, 0, 0>>
    BY <1>2, <1>7 DEF Request, OpenDirReq, p
  <2>2. Tree!ListDir(p, 0, 0)
    BY <1>1, <2>1 DEF Handle
  <2> QED
    BY <1>3, <2>2, Zenon DEF Tree!Next
<1> QED
  BY <1>3, <1>4, <1>5, <1>6, <1>7 DEF Kinds

\* The server that the client is composed with is the name space of DirTree, the
\* one that NameNodeProofs shows the NameNode to implement: the client names only
\* directories that were made, and no step of it changes the name space.
THEOREM SystemServesDirTree == SysSpec => Tree!Spec
<1>1. SysInit => Tree!Init
  BY DEF SysInit
<1>2. ASSUME SysInv, [SysNext]_sysvars
      PROVE  [Tree!Next]_(Tree!vars)
  <2>1. CASE UNCHANGED <<tree, used, unordered, answer>>
    BY <2>1, Zenon DEF Tree!vars
  <2>2. CASE UNCHANGED sysvars
    BY <2>1, <2>2, Zenon DEF sysvars, server
  <2>3. CASE ClientStep \/ SysEnded
    BY <2>1, <2>3, Zenon DEF ClientStep, Alone, SysEnded, sysvars, server
  <2>4. CASE ServeOther
    <3>1. PICK p \in Ids, n \in Names, id \in Ids \ {0} : Tree!Create(p, n, id)
      BY <2>4, Zenon DEF ServeOther
    <3>2. Tree!Mkdirs(p, n)
      BY <3>1, Zenon DEF Tree!Mkdirs
    <3> QED
      BY <3>2, Zenon DEF Tree!Next
  <2>5. CASE Deliver
    BY <2>5, Zenon DEF Deliver, Tree!Next
  <2>6. ASSUME NEW o \in Ops, Call(o) \/ Fail(o)
        PROVE  UNCHANGED <<tree, used, unordered, answer>>
    BY <2>6, Zenon DEF Call, Fail, server
  <2>7. ASSUME NEW o \in Ops, Serve(o)
        PROVE  Tree!Next
    BY <1>2, <2>7, ServeIsTree
  <2>8. ASSUME NEW n \in 1..Len(tree), Crash(n)
        PROVE  Tree!Next
    BY <2>8, Zenon DEF Crash, Tree!Next
  <2>9. ASSUME NEW o \in Ops, ServeStops(o)
        PROVE  Tree!Next
    BY <2>9, Zenon DEF ServeStops, Tree!Next
  <2> QED
    BY <1>2, <2>1, <2>2, <2>3, <2>4, <2>5, <2>6, <2>7, <2>8, <2>9, Zenon DEF SysNext
<1> QED
  BY <1>1, <1>2, SysAlways, PTL DEF SysSpec, Tree!Spec

\* In the system, too, each request is answered at most once, whatever responses
\* are lost or late and whenever the NameNode crashes.
THEOREM SystemKeepsPromises == SysSpec => [](TypeOK /\ AnsweredOnce)
<1>1. FCInv => TypeOK /\ AnsweredOnce
  BY Zenon DEF FCInv, OpOK, AnsweredOnce
<1> QED
  BY <1>1, SystemRunsClient, FCAlways, PTL DEF ImplementsFuseClient, ClientSafety

\* For any number of requests and of crashes, between two crashes a lookup finds
\* every entry that the kernel was told before the lookup was sent, or that of a
\* Mkdirs that took the name over.
THEOREM LookupSeesThePast == SysSpec => []SeesThePast
<1>1. ASSUME SysInv
      PROVE  SeesThePast
  <2> SUFFICES ASSUME NEW a \in Ops, NEW b \in Ops, HasEntry(a), a \in before[b],
                      era[a] = era[b], kind[b] = "lookup", args[a] = args[b]
               PROVE  /\ replies[b] # <<"ENOENT">>
                      /\ HasEntry(b) => IsOrTakesOver(EntryIno(b), EntryIno(a))
    BY Zenon DEF SeesThePast
  <2>1. Found(a) /\ EntryIno(a) = Given(a).id
    BY <1>1, EntryIsFound
  <2>2. FindsAgain(a, b)
    BY <1>1 DEF SysInv
  <2>3. Given(b) # NoResp =>
           /\ Given(b).code # "kNotFoundError"
           /\ Found(b) => IsOrTakesOver(Given(b).id, Given(a).id)
    BY <2>1, <2>2, Zenon DEF FindsAgain
  <2>4. replies[b] # <<"ENOENT">>
    <3> SUFFICES ASSUME replies[b] = <<"ENOENT">>
                 PROVE  FALSE
      BY Zenon
    <3>1. replies[b] # <<>>
      OBVIOUS
    <3>2. rpc[b] = "kNotFoundError" /\ Given(b) # NoResp /\ Given(b).code = rpc[b]
      BY <1>1, <3>1, AnsweredHas, ReplyOf, Zenon
    <3> QED
      BY <2>3, <3>2, Zenon
  <2>5. HasEntry(b) => IsOrTakesOver(EntryIno(b), EntryIno(a))
    BY <1>1, <2>1, <2>3, EntryIsFound, Zenon DEF Found
  <2> QED
    BY <2>4, <2>5, Zenon
<1> QED
  BY <1>1, SysAlways, PTL DEF SysSpec

\* For any number of requests and of crashes, an inode number that the kernel was
\* told means one directory for ever, unless the generator gave it out of order:
\* for all others entry_generation may stay 0.
THEOREM InodeNumbersKeepMeaning == SysSpec => []InoMeansOne
<1>1. ASSUME SysInv
      PROVE  InoMeansOne
  <2> SUFFICES ASSUME NEW a \in Ops, NEW b \in Ops, a # b, HasEntry(a), HasEntry(b),
                      EntryIno(a) = EntryIno(b), EntryIno(a) \notin unordered
               PROVE  args[a] = args[b] /\ (kind[a] = "mkdir" => kind[b] = "lookup")
    BY Zenon DEF InoMeansOne
  <2>1. OneMeaning(a, b)
    BY <1>1 DEF SysInv
  <2> QED
    BY <1>1, <2>1, EntryIsFound, Zenon DEF OneMeaning
<1> QED
  BY <1>1, SysAlways, PTL DEF SysSpec

\* For any number of requests and of crashes, a mkdir that was answered with an
\* errno has made no directory, and its request waits nowhere.
THEOREM ErrorsAreFinal == SysSpec => []ErrorIsFinal
<1>1. ASSUME SysInv
      PROVE  ErrorIsFinal
  <2> SUFFICES ASSUME NEW o \in Ops, IsAnswered(o), replies[o] # <<"ok">>
               PROVE  made[o] = 0 /\ o \notin waiting
    BY Zenon DEF ErrorIsFinal
  <2>1. /\ Given(o) # NoResp /\ Given(o).code = rpc[o] /\ o \notin waiting
        /\ rpc[o] # "kOK"
    BY <1>1, AnsweredHas, ReplyOf, Zenon DEF IsAnswered
  <2>2. RequestOK(o)
    BY <1>1, Zenon DEF SysInv
  <2> QED
    BY <2>1, <2>2, Zenon DEF RequestOK
<1> QED
  BY <1>1, SysAlways, PTL DEF SysSpec

------------------------------------------------------------------------------
\* What the kernel was told stays reachable: the directory by its inode number,
\* and the name in the listings of its parent.

\* Every entry of the name space leads to a directory, and there are finitely many.
Leads(s) ==
    /\ IsFiniteSet(DOMAIN s.entry) /\ DOMAIN s.entry \subseteq Ids \X Names
    /\ \A k \in DOMAIN s.entry : s.entry[k] \in DOMAIN s.dirs

DirsInv == \A i \in 1..Len(tree) : Leads(tree[i])

\* The directory whose inode number a response told is there until the next crash.
StaysDir(o) == Found(o) /\ era[o] = crashes => Given(o).id \in DOMAIN Tree!now.dirs

\* A request for it that was sent later is not told that it is gone.
NotGone(a, b) ==
    /\ Found(a) /\ a \in before[b] /\ era[a] = era[b]
    /\ kind[b] # "lookup" /\ args[b][1] = Given(a).id /\ Given(b) # NoResp
    => Given(b).code \notin {"kNotFoundError", "kParentNotFoundError"}

\* A listing that was sent later has the name, unless it is full before it.
ListsAgain(a, b) ==
    /\ Found(a) /\ a \in before[b] /\ era[a] = era[b]
    /\ kind[b] = "opendir" /\ args[a][1] = args[b][1]
    /\ Given(b) # NoResp /\ Given(b).code = "kOK"
    => Lists(Given(b).ents, args[a][2], Given(a).id)

ReachInv ==
    /\ SysInv
    /\ DirsInv
    /\ \A o \in Ops : StaysDir(o)
    /\ \A a, b \in Ops : NotGone(a, b) /\ ListsAgain(a, b)

\* Every set of naturals that is not empty has a least element.
LEMMA LeastNatural ==
    ASSUME NEW T \in SUBSET Nat, T # {}
    PROVE  \E x \in T : \A y \in T : x <= y
<1> DEFINE R == {ss \in Nat \X Nat : ss[1] < ss[2]}
<1>1. IsWellFoundedOn(R, Nat)
  BY NatLessThanWellFounded, Zenon DEF OpToRel
<1> HIDE DEF R
<1>2. PICK x \in T : \A y \in T : ~(<<y, x>> \in R)
  BY <1>1, WFMin, Zenon
<1>3. ASSUME NEW y \in T PROVE x <= y
  <2>1. <<y, x>> \notin R
    BY <1>2, Zenon
  <2>2. x \in Nat /\ y \in Nat
    OBVIOUS
  <2>3. ~(y < x)
    BY <2>1, <2>2 DEF R
  <2> QED
    BY <2>2, <2>3
<1> QED
  BY <1>3, Zenon

\* A bounded set of naturals that is not empty has a greatest element.
LEMMA GreatestNatural ==
    ASSUME NEW T \in SUBSET Nat, T # {}, NEW b \in Nat, \A y \in T : y <= b
    PROVE  \E x \in T : \A y \in T : y <= x
<1> DEFINE U == {u \in Nat : \A y \in T : y <= u}
<1>1. U \in SUBSET Nat /\ U # {}
  OBVIOUS
<1>2. PICK x \in U : \A u \in U : x <= u
  BY <1>1, LeastNatural, Zenon
<1>3. x \in Nat /\ \A y \in T : y <= x
  OBVIOUS
<1>4. ASSUME x \notin T PROVE FALSE
  <2>1. PICK z \in T : TRUE
    BY Zenon
  <2>2. \A y \in T : y \in Nat /\ y < x
    <3> TAKE y \in T
    <3>1. y \in Nat /\ y <= x /\ y # x
      BY <1>3, <1>4
    <3> QED
      BY <1>3, <3>1
  <2>3. x - 1 \in Nat /\ ~(x <= x - 1)
    BY <1>3, <2>1, <2>2
  <2>4. \A y \in T : y <= x - 1
    BY <1>3, <2>2
  <2>5. x - 1 \in U
    BY <2>3, <2>4
  <2> QED
    BY <1>2, <2>3, <2>5, Zenon
<1> QED
  BY <1>3, <1>4, Zenon

\* The elements that come before m.
Below(S, m) == {l \in S : l < m}

\* The first few elements of a set: one that is not among them comes after all of
\* them, and there are as many as were asked for.
LEMMA FirstFew ==
    ASSUME NEW S \in SUBSET Nat, IsFiniteSet(S), NEW n \in Nat,
           NEW x \in S, ~(Cardinality(Below(S, x)) < n)
    PROVE  LET F == {m \in S : Cardinality(Below(S, m)) < n}
           IN  Cardinality(F) = n /\ \A m \in F : m < x
<1> DEFINE rank(m) == Cardinality(Below(S, m))
           F == {m \in S : rank(m) < n}
<1>1. \A m \in S : IsFiniteSet(Below(S, m)) /\ rank(m) \in Nat
  <2> TAKE m \in S
  <2>1. Below(S, m) \in SUBSET S
    BY DEF Below
  <2> QED
    BY <2>1, FS_Subset, FS_CardinalityType, Zenon
<1>2. ASSUME NEW m \in S, NEW k \in S, m <= k PROVE rank(m) <= rank(k)
  <2>1. ASSUME NEW l \in S, l < m PROVE l < k
    <3>1. l \in Nat /\ m \in Nat /\ k \in Nat
      BY Zenon
    <3> QED
      BY <1>2, <2>1, <3>1
  <2>2. Below(S, m) \in SUBSET Below(S, k)
    BY <2>1, Zenon DEF Below
  <2> QED
    BY <1>1, <2>2, FS_Subset, Zenon
<1> DEFINE T == {m \in S : ~(rank(m) < n)}
<1>3. PICK y \in T : \A m \in T : y <= m
  <2>1. T \in SUBSET Nat /\ x \in T
    BY Zenon
  <2> QED
    BY <2>1, LeastNatural, Zenon
<1>4. /\ y \in S /\ y \in Nat /\ ~(rank(y) < n) /\ rank(y) \in Nat /\ y <= x
  BY <1>1, <1>3
<1>5. F = Below(S, y)
  <2>1. ASSUME NEW m \in F PROVE m < y
    <3>1. m \in S /\ m \in Nat /\ rank(m) < n
      OBVIOUS
    <3>2. CASE y <= m
      <4>1. rank(y) <= rank(m) /\ rank(m) \in Nat
        BY <1>1, <1>2, <1>4, <3>1, <3>2
      <4> HIDE DEF rank
      <4> QED
        BY <1>4, <3>1, <4>1
    <3> QED
      BY <1>4, <3>1, <3>2
  <2>2. ASSUME NEW m \in S, m < y PROVE m \in F
    <3>1. m \in Nat /\ ~(y <= m)
      BY <1>4, <2>2
    <3> QED
      BY <1>3, <3>1
  <2> QED
    BY <2>1, <2>2, Zenon DEF Below
<1>6. \A m \in F : m < x
  <2> TAKE m \in F
  <2>1. m \in Nat /\ m < y /\ x \in Nat
    BY <1>5 DEF Below
  <2> QED
    BY <1>4, <2>1
<1>7. Cardinality(F) = rank(y) /\ IsFiniteSet(F)
  BY <1>1, <1>4, <1>5, Zenon
<1>8. rank(y) <= n
  <2>1. CASE F = {}
    <3>1. rank(y) = 0
      BY <1>7, <2>1, FS_EmptySet, Zenon
    <3> HIDE DEF rank
    <3> QED
      BY <3>1
  <2>2. CASE F # {}
    <3>1. F \in SUBSET Nat /\ \A m \in F : m <= y
      <4>1. \A m \in F : m \in Nat /\ m < y
        BY <1>5 DEF Below
      <4>2. y \in Nat
        BY <1>4
      <4> HIDE DEF F
      <4> QED
        BY <4>1, <4>2
    <3>2. PICK z \in F : \A m \in F : m <= z
      BY <1>4, <2>2, <3>1, GreatestNatural, Zenon
    <3>3. z \in S /\ rank(z) < n /\ rank(z) \in Nat /\ z \in Nat /\ IsFiniteSet(Below(S, z))
      BY <1>1
    <3>4. F = Below(S, z) \cup {z} /\ z \notin Below(S, z)
      <4>1. ASSUME NEW m \in F PROVE m \in Below(S, z) \/ m = z
        <5>1. m \in S /\ m \in Nat /\ m <= z
          BY <3>2
        <5>2. m < z \/ m = z
          BY <3>3, <5>1
        <5> QED
          BY <5>1, <5>2 DEF Below
      <4>2. ASSUME NEW m \in Below(S, z) PROVE m \in F
        <5>1. m \in S /\ m \in Nat /\ m < z
          BY DEF Below
        <5>2. m < y
          <6>1. z < y
            BY <1>5 DEF Below
          <6> QED
            BY <1>4, <3>3, <5>1, <6>1
        <5> QED
          BY <1>5, <5>1, <5>2 DEF Below
      <4>3. z \notin Below(S, z)
        BY <3>3 DEF Below
      <4> QED
        BY <4>1, <4>2, <4>3, Zenon
    <3>5. Cardinality(F) = rank(z) + 1
      BY <3>3, <3>4, FS_AddElement, Zenon
    <3> HIDE DEF rank, F
    <3> QED
      BY <1>7, <3>3, <3>5
  <2> QED
    BY <2>1, <2>2
<1>9. rank(y) = n
  <2> HIDE DEF rank
  <2> QED
    BY <1>4, <1>8
<1> QED
  BY <1>6, <1>7, <1>9, Zenon

LEMMA SameCardinality == \A S : Tree!Cardinality(S) = Cardinality(S)
BY Zenon DEF Cardinality, Tree!Cardinality

\* The listing that ListDirOp answers an OpenDir with has an entry that is in the
\* name space, unless the names before it fill the listing.
LEMMA ListingHas ==
    ASSUME TreeInv, Leads(Tree!now), NEW k \in DOMAIN Tree!now.entry,
           NEW i, IsOrTakesOver(Tree!now.entry[k], i)
    PROVE  Lists(Tree!Listing(k[1], 0, DefaultLimit), k[2], i)
<1> DEFINE p == k[1]
           K == {e \in DOMAIN Tree!now.entry : e[1] = p /\ e[2] >= 0}
           S == {e[2] : e \in K}
           F == {m \in S : Cardinality(Below(S, m)) < DefaultLimit}
           ents == {<<m, Tree!Entry(p, m)>> : m \in F}
<1>1. Tree!Listing(k[1], 0, DefaultLimit) = ents
  BY SameCardinality, Zenon DEF Tree!Listing, Below
<1>2. \A e \in DOMAIN Tree!now.entry : e = <<e[1], e[2]>> /\ e[2] \in Nat
  <2>1. \A e \in Ids \X Names : e = <<e[1], e[2]>> /\ e[2] \in Names
    OBVIOUS
  <2> QED
    BY <2>1, FuseSystemAssumption, Zenon DEF Leads
<1>3. k[2] \in S /\ S \in SUBSET Nat
  <2>1. k \in K
    <3>1. k[2] \in Nat
      BY <1>2, Zenon
    <3>2. k[2] >= 0
      BY <3>1
    <3> QED
      BY <3>2, Zenon
  <2> QED
    BY <1>2, <2>1, Zenon
<1>4. IsFiniteSet(S)
  <2> DEFINE f == [e \in K |-> e[2]]
  <2>1. IsFiniteSet(K)
    <3>1. K \in SUBSET DOMAIN Tree!now.entry
      BY Zenon
    <3> QED
      BY <3>1, FS_Subset, Zenon DEF Leads
  <2>2. f \in Surjection(K, S)
    BY Zenon DEF Surjection
  <2> HIDE DEF f, K, S
  <2> QED
    BY <2>1, <2>2, FS_Surjection, Zenon
<1>5. Tree!Entry(p, k[2]) = Tree!now.entry[k]
  BY <1>2, Zenon DEF Tree!Entry
<1> HIDE DEF p, K, S
<1>6. CASE k[2] \in F
  <2> DEFINE e == <<k[2], Tree!now.entry[k]>>
  <2>1. e \in ents
    BY <1>5, <1>6, Zenon
  <2>2. e[1] = k[2] /\ e[2] = Tree!now.entry[k]
    OBVIOUS
  <2>3. IsOrTakesOver(e[2], i)
    BY <2>2, Zenon
  <2> HIDE DEF e, ents
  <2> QED
    BY <1>1, <2>1, <2>2, <2>3, Zenon DEF Lists
<1>7. CASE k[2] \notin F
  <2>1. ~(Cardinality(Below(S, k[2])) < DefaultLimit)
    BY <1>3, <1>7, Zenon
  <2>2. Cardinality(F) = DefaultLimit /\ \A m \in F : m < k[2]
    BY <1>3, <1>4, <2>1, FuseSystemAssumption, FirstFew, Zenon
  <2>3. IsFiniteSet(F)
    <3>1. F \in SUBSET S
      BY Zenon
    <3> QED
      BY <1>4, <3>1, FS_Subset, Zenon
  <2> HIDE DEF F
  <2>4. Cardinality(ents) = Cardinality(F)
    <3> DEFINE g == [m \in F |-> <<m, Tree!Entry(p, m)>>]
    <3>1. g \in Surjection(F, ents)
      BY Zenon DEF Surjection
    <3>2. g \in Injection(F, ents)
      <4>1. \A m \in F : g[m][1] = m
        OBVIOUS
      <4>2. g \in [F -> ents] /\ DOMAIN g = F
        BY Zenon
      <4> HIDE DEF g
      <4>3. \A a, b \in F : g[a] = g[b] => a = b
        BY <4>1, Zenon
      <4> QED
        BY <4>2, <4>3, Zenon DEF Injection, IsInjective
    <3> QED
      BY <2>3, <3>1, <3>2, FS_Surjection, Zenon
  <2>5. \A e \in ents : e[1] < k[2]
    BY <2>2
  <2> HIDE DEF ents
  <2> QED
    BY <1>1, <2>2, <2>4, <2>5, Zenon DEF Lists
<1> QED
  BY <1>6, <1>7

\* A new directory is there besides the earlier ones, and its entry leads to it.
LEMMA DirsCreated ==
    ASSUME TreeInv, DirsInv, NEW p \in Ids, NEW n \in Names, NEW id, Tree!Create(p, n, id)
    PROVE  /\ DirsInv'
           /\ DOMAIN Tree!now.dirs \subseteq DOMAIN Tree!now'.dirs
           /\ id \in DOMAIN Tree!now'.dirs
<1> DEFINE key == <<p, n>>
           d == Tree!Put(Tree!now.dirs, id, [parent_id |-> p, name |-> n])
           e == Tree!Put(Tree!now.entry, key, id)
           s == [dirs |-> d, entry |-> e]
<1>1. tree' = Append(tree, s)
  BY Zenon DEF Tree!Create
<1> HIDE DEF d, e
<1>2. s.dirs = d /\ s.entry = e
  OBVIOUS
<1>3. /\ DOMAIN d = DOMAIN Tree!now.dirs \cup {id}
      /\ DOMAIN e = DOMAIN Tree!now.entry \cup {key} /\ e[key] = id
      /\ \A k \in DOMAIN Tree!now.entry \ {key} : e[k] = Tree!now.entry[k]
  BY Zenon DEF Tree!Put, d, e
<1>4. key \in Ids \X Names
  OBVIOUS
<1> HIDE DEF s, key
<1>5. /\ Len(tree) \in Nat /\ Len(tree') = Len(tree) + 1
      /\ \A i \in 1..Len(tree) : tree'[i] = tree[i]
      /\ tree'[Len(tree) + 1] = s
  BY <1>1, SeqAppend DEF TreeInv
<1>6. Tree!now' = s
  BY <1>5, Zenon DEF Tree!now
<1>7. Leads(Tree!now)
  <2>1. Len(tree) \in 1..Len(tree)
    BY DEF TreeInv
  <2> QED
    BY <2>1, Zenon DEF DirsInv, Tree!now
<1>8. Leads(s)
  <2>1. IsFiniteSet(DOMAIN e)
    <3>1. IsFiniteSet(DOMAIN Tree!now.entry)
      BY <1>7, Zenon DEF Leads
    <3>2. IsFiniteSet(DOMAIN Tree!now.entry \cup {key})
      BY <3>1, FS_AddElement, Zenon
    <3> QED
      BY <1>3, <3>2, Zenon
  <2>2. DOMAIN e \subseteq Ids \X Names
    BY <1>3, <1>4, <1>7, Zenon DEF Leads
  <2>3. \A k \in DOMAIN e : e[k] \in DOMAIN d
    BY <1>3, <1>7, Zenon DEF Leads
  <2> QED
    BY <1>2, <2>1, <2>2, <2>3, Zenon DEF Leads
<1>9. DirsInv'
  <2>1. \A i \in 1..Len(tree') : i \in 1..Len(tree) \/ i = Len(tree) + 1
    BY <1>5
  <2>2. \A i \in 1..Len(tree') : Leads(tree'[i])
    BY <1>5, <1>8, <2>1, Zenon DEF DirsInv
  <2> QED
    BY <2>2, Zenon DEF DirsInv, Leads
<1> QED
  BY <1>2, <1>3, <1>6, <1>9, Zenon

\* A crash returns to an earlier state of the name space.
LEMMA DirsLost ==
    ASSUME TreeInv, DirsInv, NEW n \in 1..Len(tree), Tree!Lose(n)
    PROVE  DirsInv'
<1>1. tree' = SubSeq(tree, 1, n)
  BY DEF Tree!Lose
<1>2. Len(tree') = n /\ \A i \in 1..n : tree'[i] = tree[i]
  BY <1>1, SeqCut DEF TreeInv
<1>3. \A i \in 1..n : i \in 1..Len(tree)
  BY DEF TreeInv
<1>4. \A i \in 1..Len(tree') : Leads(tree'[i])
  BY <1>2, <1>3, Zenon DEF DirsInv
<1> QED
  BY <1>4, Zenon DEF DirsInv, Leads

LEMMA DirsSame ==
    ASSUME DirsInv, tree' = tree
    PROVE  DirsInv' /\ DOMAIN Tree!now.dirs \subseteq DOMAIN Tree!now'.dirs
<1>1. DirsInv'
  BY Zenon DEF DirsInv, Leads
<1>2. Tree!now' = Tree!now
  BY Zenon DEF Tree!now
<1> QED
  BY <1>1, <1>2, Zenon

\* Directories go away in a crash alone.
LEMMA DirsStep ==
    ASSUME SysInv, DirsInv, [SysNext]_sysvars
    PROVE  /\ DirsInv'
           /\ \/ crashes' = crashes /\ DOMAIN Tree!now.dirs \subseteq DOMAIN Tree!now'.dirs
              \/ crashes' = crashes + 1
<1> DEFINE Goal == /\ DirsInv'
                   /\ \/ /\ crashes' = crashes
                         /\ DOMAIN Tree!now.dirs \subseteq DOMAIN Tree!now'.dirs
                      \/ crashes' = crashes + 1
<1>1. TreeInv
  BY DEF SysInv
<1>2. ASSUME tree' = tree, crashes' = crashes
      PROVE  Goal
  BY <1>2, DirsSame, Zenon
<1>3. ASSUME NEW p \in Ids, NEW n \in Names, NEW id, Tree!Create(p, n, id), crashes' = crashes
      PROVE  Goal
  BY <1>1, <1>3, DirsCreated, Zenon
<1>4. CASE ServeOther
  BY <1>3, <1>4, Zenon DEF ServeOther
<1>5. ASSUME NEW n \in 1..Len(tree), Crash(n)
      PROVE  Goal
  BY <1>1, <1>5, DirsLost, Zenon DEF Crash
<1>6. ASSUME NEW o \in Ops, Serve(o)
      PROVE  Goal
  <2>1. Handles(o) /\ crashes' = crashes
    BY <1>6, ServeOK, Zenon DEF Handles
  <2>2. CASE MakesDir(o)
    <3>1. args[o] \in Ids \X Names
      BY <2>1, Zenon DEF Handles
    <3>2. args[o][1] \in Ids /\ args[o][2] \in Names
      BY <3>1
    <3>3. \E p \in Ids, n \in Names, id \in Ids \ {0} : Tree!Create(p, n, id)
      BY <2>2, <3>2, Zenon DEF MakesDir
    <3> QED
      BY <1>3, <2>1, <3>3, Zenon
  <2> QED
    BY <1>2, <2>1, <2>2, Zenon DEF Handles, AnswersOnly, FindsName
<1>7. CASE UNCHANGED sysvars \/ ClientStep \/ SysEnded \/ Deliver
  <2>1. UNCHANGED <<tree, crashes>>
    BY <1>7, Zenon DEF sysvars, server, ClientStep, Alone, SysEnded, Deliver, Tree!Sent
  <2> QED
    BY <1>2, <2>1
<1>8. ASSUME NEW o \in Ops, Call(o) \/ ServeStops(o) \/ Fail(o)
      PROVE  Goal
  BY <1>2, <1>8, Zenon DEF Call, ServeStops, Fail, server, Tree!Waste
<1> QED
  BY <1>4, <1>5, <1>6, <1>7, <1>8, Zenon DEF SysNext

\* What the codes of a refusal say of the directory.
LEMMA RefusalSays ==
    ASSUME NEW c, NEW there \in BOOLEAN
    PROVE  /\ c \in {"kSystemError"} \cup
                       {IF there THEN "kPermissionError" ELSE "kParentNotFoundError"}
              => c # "kOK" /\ (c \in {"kNotFoundError", "kParentNotFoundError"} => ~there)
           /\ c \in {"kSystemError"} \cup {x \in {"kNotFoundError"} : ~there}
              => c # "kOK" /\ (c \in {"kNotFoundError", "kParentNotFoundError"} => ~there)
OBVIOUS

LEMMA RequestIs ==
    ASSUME NEW k, NEW id, NEW name
    PROVE  /\ k = "getattr" => Request(k, id, name) = <<"GetInode", id>>
           /\ k = "mkdir" => Request(k, id, name) = <<"Mkdirs", id, name>>
           /\ k = "opendir" => Request(k, id, name) = <<"ListDir", id, 0, 0>>
BY DEF Request, GetAttrReq, MkdirReq, OpenDirReq

LEMMA HandleIs ==
    ASSUME NEW r, NEW id, NEW name
    PROVE  /\ r = <<"GetInode", id>> /\ Handle(r) => Tree!GetInode(id)
           /\ r = <<"Mkdirs", id, name>> /\ Handle(r) => Tree!Mkdirs(id, name)
           /\ r = <<"ListDir", id, 0, 0>> /\ Handle(r) => Tree!ListDir(id, 0, 0)
<1>1. ASSUME r = <<"GetInode", id>>, Handle(r) PROVE Tree!GetInode(id)
  BY <1>1 DEF Handle
<1>2. ASSUME r = <<"Mkdirs", id, name>>, Handle(r) PROVE Tree!Mkdirs(id, name)
  BY <1>2 DEF Handle
<1>3. ASSUME r = <<"ListDir", id, 0, 0>>, Handle(r) PROVE Tree!ListDir(id, 0, 0)
  BY <1>3 DEF Handle
<1> QED
  BY <1>1, <1>2, <1>3, Zenon

\* The NameNode says that a directory is not there only when it is not, and it
\* lists the directory that it was asked for.
LEMMA HandledTruly ==
    ASSUME NEW o, kind[o] \in Kinds, Handle(req[o]),
           req[o] = Request(kind[o], args[o][1], args[o][2])
    PROVE  /\ /\ kind[o] # "lookup"
              /\ answer'.code \in {"kNotFoundError", "kParentNotFoundError"}
              => ~Tree!IsDir(args[o][1])
           /\ kind[o] = "opendir" /\ answer'.code = "kOK" =>
                 answer'.ents = Tree!Listing(args[o][1], 0, DefaultLimit)
<1> DEFINE p == args[o][1]
           n == args[o][2]
           told == answer'.code
           gone == {"kNotFoundError", "kParentNotFoundError"}
           codes == {"kSystemError"} \cup
                       {IF Tree!IsDir(p) THEN "kPermissionError" ELSE "kParentNotFoundError"}
<1>0. Tree!IsDir(p) \in BOOLEAN
  BY Zenon DEF Tree!IsDir
<1>1. "kOK" \notin gone /\ "mkdir" # "opendir" /\ "getattr" # "opendir"
  OBVIOUS
<1>2. ASSUME NEW r, Tree!Refuse(r, codes)
      PROVE  told # "kOK" /\ (told \in gone => ~Tree!IsDir(p))
  BY <1>0, <1>2, RefuseTells, RefusalSays, Zenon
<1>3. CASE kind[o] = "lookup"
  BY <1>3
<1>4. CASE kind[o] = "mkdir"
  <2>1. Tree!Mkdirs(p, n)
    <3>1. req[o] = <<"Mkdirs", p, n>>
      BY <1>4, RequestIs
    <3> QED
      BY <3>1, HandleIs, Zenon
  <2>2. ASSUME NEW id, Tree!Create(p, n, id)
        PROVE  told = "kOK"
    <3>1. answer' = [req |-> <<"Mkdirs", p, n>>, code |-> "kOK", id |-> id]
      BY <2>2, Zenon DEF Tree!Create
    <3> QED
      BY <3>1
  <2>3. told \in gone => ~Tree!IsDir(p)
    BY <1>1, <1>2, <2>1, <2>2, Zenon DEF Tree!Mkdirs
  <2> QED
    BY <1>1, <1>4, <2>3, Zenon
<1>5. CASE kind[o] = "getattr"
  <2> DEFINE r == <<"GetInode", p>>
             missing == {"kSystemError"} \cup {c \in {"kNotFoundError"} : ~Tree!IsDir(p)}
  <2>1. Tree!GetInode(p)
    <3>1. req[o] = r
      BY <1>5, RequestIs
    <3> QED
      BY <3>1, HandleIs, Zenon
  <2>2. CASE Tree!Refuse(r, missing)
    <3>1. told \in missing
      BY <2>2, RefuseTells, Zenon
    <3>2. told \in gone => ~Tree!IsDir(p)
      BY <1>0, <3>1, RefusalSays, Zenon
    <3> QED
      BY <1>1, <1>5, <3>2, Zenon
  <2>3. CASE Tree!Tell([req |-> r, code |-> "kOK"])
    <3>1. told = "kOK"
      BY <2>3 DEF Tree!Tell
    <3> QED
      BY <1>1, <1>5, <3>1, Zenon
  <2> QED
    BY <2>1, <2>2, <2>3, Zenon DEF Tree!GetInode
<1>6. CASE kind[o] = "opendir"
  <2> DEFINE r == <<"ListDir", p, 0, 0>>
             ents == Tree!Listing(p, 0, DefaultLimit)
  <2>1. Tree!ListDir(p, 0, 0)
    <3>1. req[o] = r
      BY <1>6, RequestIs
    <3> QED
      BY <3>1, HandleIs, Zenon
  <2>2. (IF 0 > 0 THEN 0 ELSE DefaultLimit) = DefaultLimit
    OBVIOUS
  <2>3. \/ Tree!Refuse(r, codes)
        \/ \E a, m : Tree!Tell([req |-> r, code |-> "kOK", parent_dent |-> a, ents |-> ents,
                                has_more |-> m])
    BY <2>1, <2>2, Zenon DEF Tree!ListDir
  <2> HIDE DEF ents
  <2>4. ASSUME NEW a, NEW m,
               Tree!Tell([req |-> r, code |-> "kOK", parent_dent |-> a, ents |-> ents,
                          has_more |-> m])
        PROVE  told = "kOK" /\ answer'.ents = ents
    BY <2>4 DEF Tree!Tell
  <2>5. /\ told \in gone => ~Tree!IsDir(p)
        /\ told = "kOK" => answer'.ents = ents
    BY <1>1, <1>2, <2>3, <2>4, Zenon
  <2> QED
    BY <2>5, Zenon DEF ents
<1> QED
  BY <1>3, <1>4, <1>5, <1>6, Zenon DEF Kinds

\* A listing that had a name has it when more ids are given.
LEMMA StillLists ==
    ASSUME NEW ents, NEW name, NEW id, Lists(ents, name, id), unordered \subseteq unordered'
    PROVE  \/ \E e \in ents : e[1] = name /\ (e[2] >= id \/ e[2] \in unordered')
           \/ Cardinality(ents) = DefaultLimit /\ \A e \in ents : e[1] < name
BY Zenon DEF Lists, IsOrTakesOver

LEMMA ReachStays ==
    ASSUME NEW a \in Ops, NEW b \in Ops, ResponseStays(a), ResponseStays(b),
           NotGone(a, b), ListsAgain(a, b), unordered \subseteq unordered'
    PROVE  NotGone(a, b)' /\ ListsAgain(a, b)'
<1>1. NotGone(a, b)'
  BY Zenon DEF ResponseStays, NotGone, Found
<1>2. ListsAgain(a, b)'
  <2> SUFFICES ASSUME Found(a)', a \in before'[b], era'[a] = era'[b], kind'[b] = "opendir",
                      args'[a][1] = args'[b][1], Given(b)' # NoResp, Given(b)'.code = "kOK"
               PROVE  \/ \E e \in Given(b)'.ents : /\ e[1] = args'[a][2]
                                                    /\ \/ e[2] >= Given(a)'.id
                                                       \/ e[2] \in unordered'
                      \/ /\ Cardinality(Given(b)'.ents) = DefaultLimit
                         /\ \A e \in Given(b)'.ents : e[1] < args'[a][2]
    BY Zenon DEF ListsAgain, Lists, IsOrTakesOver
  <2>1. /\ Found(a) /\ Given(a)' = Given(a) /\ args'[a] = args[a] /\ era'[a] = era[a]
        /\ Given(b)' = Given(b) /\ args'[b] = args[b] /\ era'[b] = era[b]
        /\ kind'[b] = kind[b] /\ before'[b] = before[b]
    BY Zenon DEF ResponseStays, Found
  <2>2. Lists(Given(b).ents, args[a][2], Given(a).id)
    BY <2>1, Zenon DEF ListsAgain
  <2> QED
    BY <2>1, <2>2, StillLists, Zenon
<1> QED
  BY <1>1, <1>2

\* A step that handles no request keeps what was told reachable.
LEMMA QuietReach ==
    ASSUME ReachInv, Quiet, SysInv', DirsInv',
           \/ crashes' = crashes /\ DOMAIN Tree!now.dirs \subseteq DOMAIN Tree!now'.dirs
           \/ crashes' = crashes + 1
    PROVE  ReachInv'
<1>1. ASSUME NEW o \in Ops
      PROVE  StaysDir(o)'
  <2> SUFFICES ASSUME Found(o)', era'[o] = crashes'
               PROVE  Given(o)'.id \in DOMAIN Tree!now'.dirs
    BY Zenon DEF StaysDir
  <2>1. ResponseStays(o) /\ StaysDir(o) /\ RequestOK(o) /\ crashes \in Nat
    BY Zenon DEF Quiet, ReachInv, SysInv, SysTypeOK
  <2>2. Found(o) /\ Given(o)' = Given(o) /\ era'[o] = era[o]
    BY <2>1, Zenon DEF ResponseStays, Found
  <2>3. crashes' # crashes + 1
    <3>1. era[o] \in 0..crashes /\ era[o] = crashes'
      BY <2>1, <2>2, Zenon DEF RequestOK
    <3> QED
      BY <2>1, <3>1
  <2> QED
    BY <2>1, <2>2, <2>3, Zenon DEF StaysDir
<1>2. \A a, b \in Ops : NotGone(a, b)' /\ ListsAgain(a, b)'
  BY ReachStays, Zenon DEF Quiet, ReachInv
<1> QED
  BY <1>1, <1>2, Zenon DEF ReachInv

\* A request that was sent after a directory had been told finds that directory.
LEMMA ServeReach ==
    ASSUME ReachInv, NEW o \in Ops, Handles(o), SysInv', DirsInv',
           DOMAIN Tree!now.dirs \subseteq DOMAIN Tree!now'.dirs
    PROVE  ReachInv'
<1>1. /\ UNCHANGED <<crashes, kind, args, before>>
      /\ Given(o)' = answer' /\ era'[o] = crashes
      /\ \A q \in Ops \ {o} : ResponseStays(q)
      /\ \A q \in Ops : o \notin before[q]
      /\ AnswersOnly(o) \/ FindsName(o) \/ MakesDir(o)
      /\ unordered \subseteq unordered'
  BY Zenon DEF Handles
<1>2. TreeInv /\ TreeInv' /\ Leads(Tree!now) /\ Leads(Tree!now)' /\ crashes \in Nat
  <2>1. TreeInv /\ TreeInv' /\ DirsInv /\ crashes \in Nat
    BY Zenon DEF ReachInv, SysInv, SysTypeOK
  <2>2. Len(tree) \in 1..Len(tree) /\ Len(tree') \in 1..Len(tree')
    BY <2>1 DEF TreeInv
  <2> QED
    BY <2>1, <2>2, Zenon DEF DirsInv, Leads, Tree!now
<1>3. ASSUME NEW a \in Ops, a # o, Found(a)'
      PROVE  /\ Found(a) /\ Given(a)' = Given(a) /\ era'[a] = era[a]
             /\ era[a] = crashes =>
                   /\ Given(a).id \in DOMAIN Tree!now.dirs
                   /\ args[a] \in DOMAIN Tree!now.entry
                   /\ IsOrTakesOver(Tree!now.entry[args[a]], Given(a).id)
  <2>1. Found(a) /\ Given(a)' = Given(a) /\ era'[a] = era[a]
    BY <1>1, <1>3, Zenon DEF ResponseStays, Found
  <2>2. FoundOK(a) /\ StaysDir(a)
    BY Zenon DEF ReachInv, SysInv
  <2> QED
    BY <2>1, <2>2, Zenon DEF FoundOK, StaysDir
<1>4. ASSUME NEW a \in Ops
      PROVE  StaysDir(a)'
  <2>1. CASE a # o
    BY <1>1, <1>3, <2>1, Zenon DEF StaysDir
  <2>2. CASE a = o /\ Found(o)'
    <3>1. kind[o] \in {"lookup", "mkdir"} /\ answer'.code = "kOK"
      BY <1>1, <2>2, Zenon DEF Found
    <3>2. CASE FindsName(o)
      <4>1. args[o] \in DOMAIN Tree!now.entry /\ answer'.id = Tree!now.entry[args[o]]
        BY <3>2, Zenon DEF FindsName
      <4>2. answer'.id \in DOMAIN Tree!now.dirs
        BY <1>2, <4>1, Zenon DEF Leads
      <4> QED
        BY <1>1, <2>2, <4>2, Zenon DEF StaysDir
    <3>3. CASE MakesDir(o)
      <4>1. answer'.id \in DOMAIN Tree!now'.dirs
        <5>1. Tree!Create(args[o][1], args[o][2], answer'.id)
          BY <3>3, Zenon DEF MakesDir
        <5>2. args[o][1] \in Ids /\ args[o][2] \in Names
          <6>1. args[o] \in Ids \X Names
            BY Zenon DEF Handles
          <6> QED
            BY <6>1
        <5>3. \A p \in Ids, n \in Names : \A id :
                 Tree!Create(p, n, id) => id \in DOMAIN Tree!now'.dirs
          BY <1>2, DirsCreated, Zenon DEF ReachInv
        <5>4. ASSUME NEW p, NEW n, NEW id, p = args[o][1], n = args[o][2], id = answer'.id
              PROVE  id \in DOMAIN Tree!now'.dirs
          <6>1. p \in Ids /\ n \in Names /\ Tree!Create(p, n, id)
            BY <5>1, <5>2, <5>4
          <6> QED
            BY <5>3, <6>1, Zenon
        <5> QED
          BY <5>4, Zenon
      <4> QED
        BY <1>1, <2>2, <4>1, Zenon DEF StaysDir
    <3> QED
      BY <1>1, <3>1, <3>2, <3>3, Zenon DEF AnswersOnly
  <2> QED
    BY <2>1, <2>2, Zenon DEF StaysDir
<1>5. ASSUME NEW a \in Ops, a \in before[o], Found(a)', era'[a] = era'[o]
      PROVE  /\ NotGone(a, o)' /\ ListsAgain(a, o)'
  <2>1. /\ a # o /\ Given(a)' = Given(a) /\ Given(a).id \in DOMAIN Tree!now.dirs
        /\ args[a] \in DOMAIN Tree!now.entry
        /\ IsOrTakesOver(Tree!now.entry[args[a]], Given(a).id)
    BY <1>1, <1>3, <1>5, Zenon
  <2>2. /\ /\ kind[o] # "lookup"
           /\ answer'.code \in {"kNotFoundError", "kParentNotFoundError"}
           => ~Tree!IsDir(args[o][1])
        /\ kind[o] = "opendir" /\ answer'.code = "kOK" =>
              answer'.ents = Tree!Listing(args[o][1], 0, DefaultLimit)
    BY HandledTruly, Zenon DEF Handles
  <2>3. NotGone(a, o)'
    <3>1. args[o][1] = Given(a).id => Tree!IsDir(args[o][1])
      BY <2>1, Zenon DEF Tree!IsDir
    <3> QED
      BY <1>1, <2>1, <2>2, <3>1, Zenon DEF NotGone
  <2>4. ListsAgain(a, o)'
    <3> SUFFICES ASSUME kind[o] = "opendir", args[a][1] = args[o][1], answer'.code = "kOK"
                 PROVE  \/ \E e \in answer'.ents : /\ e[1] = args[a][2]
                                                   /\ \/ e[2] >= Given(a).id
                                                      \/ e[2] \in unordered'
                        \/ /\ Cardinality(answer'.ents) = DefaultLimit
                           /\ \A e \in answer'.ents : e[1] < args[a][2]
      BY <1>1, <2>1, Zenon DEF ListsAgain, Lists, IsOrTakesOver
    <3>1. \A k \in DOMAIN Tree!now.entry : \A i : IsOrTakesOver(Tree!now.entry[k], i) =>
             Lists(Tree!Listing(k[1], 0, DefaultLimit), k[2], i)
      BY <1>2, ListingHas, Zenon
    <3>2. Lists(Tree!Listing(args[a][1], 0, DefaultLimit), args[a][2], Given(a).id)
      BY <2>1, <3>1, Zenon
    <3>3. answer'.ents = Tree!Listing(args[a][1], 0, DefaultLimit)
      BY <2>2, Zenon
    <3> QED
      BY <1>1, <3>2, <3>3, StillLists, Zenon
  <2> QED
    BY <2>3, <2>4
<1>6. ASSUME NEW a \in Ops, NEW b \in Ops
      PROVE  NotGone(a, b)' /\ ListsAgain(a, b)'
  <2>1. CASE a # o /\ b # o
    BY <1>1, <2>1, ReachStays, Zenon DEF ReachInv
  <2>2. CASE a = o
    BY <1>1, <2>2, Zenon DEF NotGone, ListsAgain
  <2>3. CASE b = o
    BY <1>1, <1>5, <2>3, Zenon DEF NotGone, ListsAgain
  <2> QED
    BY <2>1, <2>2, <2>3, Zenon
<1> QED
  BY <1>4, <1>6, Zenon DEF ReachInv

LEMMA ReachStep ==
    ASSUME ReachInv, [SysNext]_sysvars
    PROVE  ReachInv'
<1>1. SysInv /\ DirsInv
  BY Zenon DEF ReachInv
<1>2. SysInv' /\ (Quiet \/ \E o \in Ops : Handles(o))
  BY <1>1, SysStep, Zenon
<1>3. /\ DirsInv'
      /\ \/ crashes' = crashes /\ DOMAIN Tree!now.dirs \subseteq DOMAIN Tree!now'.dirs
         \/ crashes' = crashes + 1
  BY <1>1, DirsStep, Zenon
<1>4. CASE Quiet
  BY <1>2, <1>3, <1>4, QuietReach, Zenon
<1>5. ASSUME NEW o \in Ops, Handles(o)
      PROVE  ReachInv'
  <2>1. crashes' = crashes /\ crashes \in Nat
    BY <1>1, <1>5, Zenon DEF Handles, SysInv, SysTypeOK
  <2>2. crashes' # crashes + 1
    BY <2>1
  <2> QED
    BY <1>2, <1>3, <1>5, <2>2, ServeReach, Zenon
<1> QED
  BY <1>2, <1>4, <1>5, Zenon

LEMMA ReachInit ==
    ASSUME SysInit
    PROVE  ReachInv
<1>1. SysInv
  BY SysInitOK
<1>2. \A o \in Ops : ~Found(o)
  <2>1. answer = NoResp /\ \A o \in Ops : resp[o] = NoResp
    BY Zenon DEF SysInit, Tree!Init, Tree!NoAnswer, NoResp
  <2> QED
    BY <2>1, Zenon DEF Found, Given
<1>3. DirsInv
  <2> DEFINE e == [dirs |-> Tree!EmptyMap, entry |-> Tree!EmptyMap]
  <2>1. tree = <<e>>
    BY DEF SysInit, Tree!Init
  <2>2. DOMAIN e.entry = {}
    BY DEF Tree!EmptyMap
  <2>3. Leads(e)
    BY <2>2, FS_EmptySet, Zenon DEF Leads
  <2> HIDE DEF e
  <2>4. \A i \in 1..Len(tree) : tree[i] = e
    BY <2>1
  <2> QED
    BY <2>3, <2>4, Zenon DEF DirsInv
<1> QED
  BY <1>1, <1>2, <1>3, Zenon DEF ReachInv, StaysDir, NotGone, ListsAgain

LEMMA ReachAlways == SysInit /\ [][SysNext]_sysvars => []ReachInv
BY ReachInit, ReachStep, PTL

\* For any number of requests, of directories and of crashes and any limit, between
\* two crashes the listing of an opendir has every name that the kernel was told
\* before the opendir was sent, unless it is full of names that come before it: the
\* one page that FuseOpenDirOp fetches is cut off behind its last name and nowhere
\* else.
THEOREM OpenDirSeesPast == SysSpec => []OpenDirSeesThePast
<1>1. ASSUME ReachInv
      PROVE  OpenDirSeesThePast
  <2> SUFFICES ASSUME NEW a \in Ops, NEW b \in Ops, HasEntry(a), a \in before[b],
                      era[a] = era[b], kind[b] = "opendir", args[a][1] = args[b][1],
                      replies[b] = <<"ok">>
               PROVE  Lists(resp[b].ents, args[a][2], EntryIno(a))
    BY Zenon DEF OpenDirSeesThePast
  <2>1. SysInv /\ ListsAgain(a, b)
    BY <1>1, Zenon DEF ReachInv
  <2>2. Found(a) /\ EntryIno(a) = Given(a).id
    BY <2>1, EntryIsFound, Zenon
  <2>3. replies[b] # <<>>
    OBVIOUS
  <2>4. rpc[b] = "kOK" /\ Given(b) = resp[b] /\ resp[b] # NoResp /\ resp[b].code = rpc[b]
    BY <2>1, <2>3, AnsweredHas, ReplyOf, Zenon
  <2> QED
    BY <2>1, <2>2, <2>4, Zenon DEF ListsAgain
<1> QED
  BY <1>1, ReachAlways, PTL DEF SysSpec

\* For any number of requests, of directories and of crashes, between two crashes
\* no getattr, mkdir or opendir for an inode number that the kernel was told is
\* answered that the directory is not there.
THEOREM InodeNumbersStayValid == SysSpec => []InoStaysValid
<1>1. ASSUME ReachInv
      PROVE  InoStaysValid
  <2> SUFFICES ASSUME NEW a \in Ops, NEW b \in Ops, HasEntry(a), a \in before[b],
                      era[a] = era[b], kind[b] # "lookup", args[b][1] = EntryIno(a),
                      rpc[b] \in {"kNotFoundError", "kParentNotFoundError"}
               PROVE  FALSE
    BY Zenon DEF InoStaysValid
  <2>1. SysInv /\ NotGone(a, b) /\ RequestOK(b) /\ SysTypeOK
    BY <1>1, Zenon DEF ReachInv, SysInv
  <2>2. Found(a) /\ EntryIno(a) = Given(a).id
    BY <2>1, EntryIsFound, Zenon
  <2>3. rpc[b] \notin {"none", "sent", "failed"}
    OBVIOUS
  <2>4. resp[b] # NoResp /\ resp[b].code = rpc[b]
    BY <2>1, <2>3, Zenon DEF RequestOK
  <2>5. Given(b) = resp[b]
    BY <2>1, <2>4, Zenon DEF Given, SysTypeOK
  <2> QED
    BY <2>1, <2>2, <2>4, <2>5, Zenon DEF NotGone
<1> QED
  BY <1>1, ReachAlways, PTL DEF SysSpec
=============================================================================
