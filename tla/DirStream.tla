----------------------------- MODULE DirStream -----------------------------
(***************************************************************************)
(* One open directory of the FUSE client: opendir fetches a listing with    *)
(* ListDir and keeps it in CacheDirEntries, readdir hands out of it what    *)
(* fits in the kernel's buffer, and releasedir deletes it                   *)
(* (client/fuse/operation/fuse_{open,read,rel}_dir_op.cc).                  *)
(*                                                                          *)
(* The kernel sends one readdir at a time for an open directory, with the   *)
(* offset of the last entry it has taken: an earlier one after seekdir or   *)
(* rewinddir, or when its caller had less room than the buffer.  Other      *)
(* clients create entries at any time; a name is a natural number, ordered  *)
(* as the strings are.                                                      *)
(***************************************************************************)
EXTENDS Naturals, Sequences

CONSTANTS
    Names,                      \* of the entries that the directory may have
    list_dir_default_limit,     \* the flag of the NameNode
    Rooms,                      \* how many entries may fit in a kernel buffer
    MaxOpens                    \* bound on the opendirs of a behaviour

ASSUME DirStreamAssumption ==
    /\ Names \subseteq Nat
    /\ list_dir_default_limit \in Nat \ {0}
    /\ Rooms \subseteq Nat \ {0}
    /\ MaxOpens \in Nat

VARIABLES
    dir,        \* the names in the directory
    handle,     \* "closed", "open", "reading" while a readdir waits for an RPC, or
                \* "hung" when that RPC has ended without a response
    start_off, end_off, entries, has_more,  \* CacheDirEntries
    off,        \* the kernel's offset
    result,     \* of the last call: "none", "some", "end" or an errno
    up,         \* FALSE once a CHECK has failed
    opens
VARIABLES       \* history variables
    got,        \* what readdir has returned, up to the kernel's offset
    at_open     \* the names in the directory when it was opened

cache == <<start_off, end_off, entries, has_more>>
vars == <<dir, handle, cache, off, result, up, opens, got, at_open>>

\* The names of opendir's "." and "..".
Dots == <<"dot", "dotdot">>

Init ==
    /\ dir \in SUBSET Names
    /\ at_open = {}
    /\ handle = "closed"
    /\ start_off = 0 /\ end_off = 0 /\ entries = <<>> /\ has_more = FALSE
    /\ off = 0
    /\ got = <<>>
    /\ result = "none"
    /\ up = TRUE
    /\ opens = 0

----------------------------------------------------------------------------
Increasing(ents) == \A i, j \in 1..Len(ents) : i < j => ents[i] < ents[j]

\* ListDirOp for a request without limit and start_after, as the client sends
\* it: the entries of the response (and a mutant that stops one entry early), and
\* has_more, which compares their number with the request's limit, 0 (and a mutant
\* that compares it with the limit that was used).
IsResponseShort(ents) ==
    /\ Increasing(ents)
    /\ Len(ents) < list_dir_default_limit
    /\ \A n \in dir : (\E i \in 1..Len(ents) : ents[i] = n)
                     \/ /\ Len(ents) + 1 = list_dir_default_limit
                        /\ \A i \in 1..Len(ents) : ents[i] < n
IsResponse(ents) ==
    /\ Increasing(ents)
    /\ Len(ents) <= list_dir_default_limit
    /\ \A n \in dir : (\E i \in 1..Len(ents) : ents[i] = n)
                     \/ /\ Len(ents) = list_dir_default_limit
                        /\ \A i \in 1..Len(ents) : ents[i] < n
RespHasMoreAtLimit(ents) == Len(ents) = list_dir_default_limit
RespHasMore(ents) == Len(ents) = 0

\* FuseOpenDirOp::OnSuccess.
OpenDir ==
    /\ up
    /\ handle = "closed"
    /\ opens < MaxOpens
    /\ opens' = opens + 1
    /\ handle' = "open"
    /\ start_off' = 0
    /\ end_off' = 0
    /\ \E n \in 0..list_dir_default_limit : \E ents \in [1..n -> dir] :
          /\ IsResponse(ents)
          /\ entries' = Dots \o ents
          /\ has_more' = RespHasMore(ents)
    /\ off' = 0
    /\ got' = <<>>
    /\ at_open' = dir
    /\ result' = "none"
    /\ UNCHANGED <<dir, up>>

\* FuseOpenDirOp without success: the kernel has no handle.  When the RPC has no
\* response, it has no answer either.
OpenDirFails ==
    /\ up
    /\ handle = "closed"
    /\ opens < MaxOpens
    /\ opens' = opens + 1
    /\ result' \in {"EACCES", "EIO", "none"}
    /\ UNCHANGED <<dir, handle, cache, off, up, got, at_open>>

\* Mutants: the first entry of the cache is read again; the cookie is the offset
\* of an entry, not of the one behind it; start_off stays behind.
FirstUnreadAgain == 0
CookieOfEntry(n) == IF n = 0 THEN end_off ELSE end_off + n - 1
StartOffKept(n) == start_off

\* Where PopulateDirEntriesBuffer goes on in the cache, how many entries are
\* left there, the offset it gives with the last of n entries, and start_off,
\* which moves up when the cache is used up.
FirstUnread == end_off - start_off
Left == Len(entries) - (end_off - start_off)
Cookie(n) == end_off + n
StartOffAfter(n) == IF n = Left THEN end_off + n ELSE start_off

\* PopulateDirEntriesBuffer, and the reply of the buffer to the kernel.
PopulateDirEntriesBuffer(room) ==
    LET n == IF Left <= room THEN Left ELSE room
    IN  /\ end_off' = end_off + n
        /\ start_off' = StartOffAfter(n)
        /\ entries' = IF n = Left THEN <<>> ELSE entries
        /\ got' = got \o SubSeq(entries, FirstUnread + 1, FirstUnread + n)
        /\ off' = Cookie(n)
        /\ result' = IF n = 0 THEN "end" ELSE "some"

\* FuseReadDirOp answered from the cache.
ReadDirCached(room) ==
    /\ up
    /\ handle = "open"
    /\ off = end_off
    /\ entries # <<>> \/ ~has_more
    /\ PopulateDirEntriesBuffer(room)
    /\ UNCHANGED <<dir, handle, has_more, up, opens, at_open>>

\* FuseReadDirOp sends a ListDir request, without the id of the directory.
ReadDirSends ==
    /\ up
    /\ handle = "open"
    /\ off = end_off
    /\ entries = <<>> /\ has_more
    /\ handle' = "reading"
    /\ UNCHANGED <<dir, cache, off, result, up, opens, got, at_open>>

\* The NameNode has no directory 0: kParentNotFoundError, or kSystemError when
\* the read failed, and ToErrno knows neither.
ReadDirFails ==
    /\ up
    /\ handle = "reading"
    /\ handle' = "open"
    /\ result' = "EIO"
    /\ UNCHANGED <<dir, cache, off, up, opens, got, at_open>>

\* The RPC ends without a response.  FuseAsyncOpBase::Finish only logs that, so the
\* readdir is never answered, and the kernel keeps the directory open for it.
ReadDirLost ==
    /\ up
    /\ handle = "reading"
    /\ handle' = "hung"
    /\ UNCHANGED <<dir, cache, off, result, up, opens, got, at_open>>

\* The constructor of FuseReadDirOp CHECKs the kernel's offset.
ReadDirChecks ==
    /\ up
    /\ handle = "open"
    /\ off # end_off
    /\ up' = FALSE
    /\ UNCHANGED <<dir, handle, cache, off, result, opens, got, at_open>>

\* seekdir, rewinddir or a caller that had no room for the rest: the kernel's
\* offset is an earlier one, and the client is not told.
Seek(to) ==
    /\ up
    /\ handle = "open"
    /\ to < off
    /\ off' = to
    /\ got' = SubSeq(got, 1, to)
    /\ result' = "none"
    /\ UNCHANGED <<dir, handle, cache, up, opens, at_open>>

\* Another client creates an entry.
Create(n) ==
    /\ n \notin dir
    /\ dir' = dir \cup {n}
    /\ UNCHANGED <<handle, cache, off, result, up, opens, got, at_open>>

\* FuseRelDirOp::Start deletes the cache; closedir comes at any time.
ReleaseDir ==
    /\ up
    /\ handle = "open"
    /\ handle' = "closed"
    /\ start_off' = 0 /\ end_off' = 0 /\ entries' = <<>> /\ has_more' = FALSE
    /\ UNCHANGED <<dir, off, result, up, opens, got, at_open>>

\* A readdir of the caller, and how the RPC of one ends.
ReadDir == ReadDirSends \/ ReadDirChecks \/ \E room \in Rooms : ReadDirCached(room)
RpcEnds == ReadDirFails \/ ReadDirLost

\* No more opendir, a readdir without answer, or the client has ended.
Ended ==
    /\ ~up \/ handle = "hung" \/ (handle = "closed" /\ opens = MaxOpens)
    /\ UNCHANGED vars

Next ==
    \/ OpenDir \/ OpenDirFails \/ ReadDir \/ RpcEnds \/ ReleaseDir \/ Ended
    \/ \E to \in 0..off : Seek(to)
    \/ \E n \in Names : Create(n)

\* A caller that has opened the directory reads on or closes it.  Nothing is said of
\* the NameNode: an RPC may never end.
Spec == Init /\ [][Next]_vars /\ WF_vars(ReadDir)

----------------------------------------------------------------------------
TypeOK ==
    /\ handle \in {"closed", "open", "reading", "hung"}
    /\ start_off \in Nat /\ end_off \in Nat /\ has_more \in BOOLEAN
    /\ start_off <= end_off
    /\ end_off - start_off <= Len(entries)
    /\ off \in Nat
    /\ up \in BOOLEAN

\* readdir returns ".", ".." and the names in order, none of them twice and each
\* of them in the directory, whatever the sizes of the kernel's buffers and
\* whatever is created meanwhile.
InOrder ==
    /\ \A i \in 1..Len(got) : i <= 2 => got[i] = Dots[i]
    /\ \A i \in 3..Len(got) : got[i] \in dir /\ \A j \in 3..i - 1 : got[j] < got[i]

\* The offsets are cookies of the entries: the kernel's offset counts what it
\* has got, so the next readdir starts behind it.
OffsetCounts == handle = "open" => off = Len(got)

\* When readdir says that the directory has ended, every name that was in it at
\* opendir was returned, or as many as the NameNode's default limit.
EndIsComplete ==
    result = "end" =>
        \/ \A n \in at_open : \E i \in 3..Len(got) : got[i] = n
        \/ Len(got) = list_dir_default_limit + 2

\* A caller that reads on reaches the end or closes the directory, unless a CHECK
\* stops the client, and needs no RPC for it: what opendir has fetched is enough.
\* Only a directory that was empty at opendir, whose response says has_more, makes
\* readdir depend on the NameNode: its answer is EIO or never comes.
ReadEnds ==
    handle = "open" ~>
        \/ result = "end" \/ handle = "closed" \/ ~up
        \/ at_open = {} /\ (result = "EIO" \/ handle \in {"reading", "hung"})
=============================================================================
