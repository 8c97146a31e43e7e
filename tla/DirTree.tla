------------------------------ MODULE DirTree ------------------------------
(***************************************************************************)
(* What the NameNode promises its clients: directories that are created one *)
(* at a time below existing ones; entries that lead from a parent and a     *)
(* name to an id; and answers that are true of the state they are given in. *)
(* Any request may also fail.  A crash may lose the latest creations.  A    *)
(* new directory gets whatever id the generator returns: one that is given  *)
(* again takes the place of the directory that had it.                      *)
(*                                                                          *)
(* Attributes, and who may do what, are left out: a refusal for want of     *)
(* permission is possible whenever the directory exists.  A name is a       *)
(* natural number, 0 for the empty string, and 0 is no directory's id.      *)
(***************************************************************************)
EXTENDS Naturals, Sequences, FiniteSets

CONSTANTS
    Root,           \* the id of the root directory, which is never created
    Ids,            \* the ids that requests may name
    Names,
    Limits,         \* of listings; 0 when the request has none
    DefaultLimit

VARIABLES
    tree,       \* the states of the name space, one per creation, oldest first
    used,       \* the ids that were given to a directory, lost ones included
    unordered,  \* those of them that were once given although not above all given before
    answer      \* to the request that was just handled, until it is sent

vars == <<tree, used, unordered, answer>>

now == tree[Len(tree)]
NoAnswer == [req |-> <<>>]

EmptyMap == [k \in {} |-> 0]
Put(map, key, val) == [k \in DOMAIN map \cup {key} |-> IF k = key THEN val ELSE map[k]]

IsDir(id) == id = Root \/ id \in DOMAIN now.dirs
ParentOf(id) ==
    IF id # Root /\ id \in DOMAIN now.dirs THEN now.dirs[id].parent_id ELSE Root
Entry(parent_id, name) ==
    IF <<parent_id, name>> \in DOMAIN now.entry THEN now.entry[<<parent_id, name>>] ELSE 0

\* The generator gives id, and used and unordered remember it.
Give(id) ==
    /\ used' = used \cup {id}
    /\ unordered' = IF \A i \in used \cup {Root} : i < id THEN unordered
                    ELSE unordered \cup {id}

\* Mutant: the listing is one entry short.
ListingOneShort(id, start_after, limit) ==
    LET names == {k[2] : k \in {e \in DOMAIN now.entry : e[1] = id /\ e[2] >= start_after}}
    IN  {<<n, Entry(id, n)>> : n \in {m \in names : Cardinality({l \in names : l <= m}) < limit}}

\* The first limit entries of a directory from start_after on, with the ids they
\* lead to.  A response has them in the order of their names.
Listing(id, start_after, limit) ==
    LET names == {k[2] : k \in {e \in DOMAIN now.entry : e[1] = id /\ e[2] >= start_after}}
    IN  {<<n, Entry(id, n)>> : n \in {m \in names : Cardinality({l \in names : l < m}) < limit}}

Init ==
    /\ tree = <<[dirs |-> EmptyMap, entry |-> EmptyMap]>>
    /\ used = {}
    /\ unordered = {}
    /\ answer = NoAnswer

----------------------------------------------------------------------------
Tell(resp) ==
    /\ answer = NoAnswer
    /\ answer' = resp
    /\ UNCHANGED <<tree, used, unordered>>

Refuse(req, codes) == \E code \in codes : Tell([req |-> req, code |-> code])

\* Mutant: the directory whose name is taken over is dropped.
CreateReplaces(parent_id, name, id) ==
    /\ answer = NoAnswer
    /\ IsDir(parent_id)
    /\ Give(id)
    /\ tree' = Append(tree,
          [dirs  |-> Put([d \in DOMAIN now.dirs \ {Entry(parent_id, name)} |-> now.dirs[d]],
                         id, [parent_id |-> parent_id, name |-> name]),
           entry |-> Put(now.entry, <<parent_id, name>>, id)])
    /\ answer' = [req |-> <<"Mkdirs", parent_id, name>>, code |-> "kOK", id |-> id]

\* A new directory takes over an entry of the same name, if there is one, and
\* the place of a directory of the same id.
Create(parent_id, name, id) ==
    /\ answer = NoAnswer
    /\ IsDir(parent_id)
    /\ Give(id)
    /\ tree' = Append(tree,
          [dirs  |-> Put(now.dirs, id, [parent_id |-> parent_id, name |-> name]),
           entry |-> Put(now.entry, <<parent_id, name>>, id)])
    /\ answer' = [req |-> <<"Mkdirs", parent_id, name>>, code |-> "kOK", id |-> id]

Mkdirs(parent_id, name) ==
    \/ Refuse(<<"Mkdirs", parent_id, name>>,
              {"kSystemError"} \cup {IF IsDir(parent_id) THEN "kPermissionError"
                                     ELSE "kParentNotFoundError"})
    \/ \E id \in Ids \ {0} : Create(parent_id, name, id)

\* An id is drawn, and the server stops before the directory is there.
Waste(id) ==
    /\ answer = NoAnswer
    /\ Give(id)
    /\ UNCHANGED <<tree, answer>>

GetInode(id) ==
    \/ Refuse(<<"GetInode", id>>,
              {"kSystemError"} \cup {c \in {"kNotFoundError"} : ~IsDir(id)})
    \/ IsDir(id) /\ Tell([req |-> <<"GetInode", id>>, code |-> "kOK"])

Lookup(parent_id, name) ==
    LET id == Entry(parent_id, name)
    IN  \/ Refuse(<<"Lookup", parent_id, name>>,
                  {"kSystemError"} \cup {c \in {"kNotFoundError"} : id = 0})
        \/ id # 0 /\ Tell([req |-> <<"Lookup", parent_id, name>>, code |-> "kOK", id |-> id])

\* The answer has no parent when the listing goes on behind start_after.
ListDir(id, start_after, limit) ==
    LET ents == Listing(id, start_after, IF limit > 0 THEN limit ELSE DefaultLimit)
    IN  \/ Refuse(<<"ListDir", id, start_after, limit>>,
                  {"kSystemError"} \cup {IF IsDir(id) THEN "kPermissionError"
                                         ELSE "kParentNotFoundError"})
        \/ IsDir(id) /\ Tell([req         |-> <<"ListDir", id, start_after, limit>>,
                              code        |-> "kOK",
                              parent_dent |-> IF start_after = 0 THEN ParentOf(id) ELSE 0,
                              ents        |-> ents,
                              has_more    |-> Cardinality(ents) = limit])

\* The answer is sent.
Sent == answer # NoAnswer /\ answer' = NoAnswer /\ UNCHANGED <<tree, used, unordered>>

\* A crash: the latest creations are lost.
Lose(n) ==
    /\ answer = NoAnswer
    /\ tree' = SubSeq(tree, 1, n)
    /\ UNCHANGED <<used, unordered, answer>>

Next ==
    \/ Sent
    \/ \E p \in Ids, n \in Names : Mkdirs(p, n) \/ Lookup(p, n)
    \/ \E i \in Ids \ {0} : Waste(i)
    \/ \E i \in Ids : GetInode(i)
    \/ \E i \in Ids, s \in Names \cup {0}, l \in Limits : ListDir(i, s, l)
    \/ \E n \in 1..Len(tree) : Lose(n)

Spec == Init /\ [][Next]_vars
============================================================================
