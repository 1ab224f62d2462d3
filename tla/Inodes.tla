-------------------------------- MODULE Inodes --------------------------------
(***************************************************************************)
(* The inode table of a mounted share and the answers read off it:         *)
(* agent-share/src/mount/nfs.rs.  A path is the sequence of its names, a   *)
(* name a positive number ordered as names are; 0 is an unsafe component.  *)
(* A fileid is an index into `nodes`, the root's is 1.  `ids` remembers    *)
(* the fileid of every path ever seen (TreeIds).                           *)
(***************************************************************************)
EXTENDS Naturals, SequencesExt

Root == << >>
ROOT_ID == 1

Gone == [kind |-> "gone", name |-> 0, parent |-> 0, index |-> 0, children |-> << >>]
Dir(name, parent) ==
    [kind |-> "dir", name |-> name, parent |-> parent, index |-> 0, children |-> << >>]
File(name, index) ==
    [kind |-> "file", name |-> name, parent |-> 0, index |-> index, children |-> << >>]

NoIds == [p \in {Root} |-> ROOT_ID]

Parent(path) == SubSeq(path, 1, Len(path) - 1)
Safe(path) == path # Root /\ \A i \in DOMAIN path : path[i] # 0

-----------------------------------------------------------------------------
(* TreeBuilder.  A build in progress is [ids, nodes, ok]; ids are minted     *)
(* into the persistent allocator even by a build that fails further on.      *)

\* Mutant: a build numbers its paths afresh.
StartAfresh(ids) ==
    [ids |-> NoIds, nodes |-> [id \in {ROOT_ID} |-> Dir(0, ROOT_ID)], ok |-> TRUE]

\* TreeBuilder::new: one retired slot for every fileid ever handed out.
Start(ids) ==
    [ids |-> ids,
     nodes |-> [id \in 1..Cardinality(DOMAIN ids) |->
                   IF id = ROOT_ID THEN Dir(0, ROOT_ID) ELSE Gone],
     ok |-> TRUE]

Refuse(b) == [b EXCEPT !.ok = FALSE]

ChildNamed(b, parent, name) ==
    {c \in ToSet(b.nodes[parent].children) : b.nodes[c].name = name}

IsDir(b, path) ==
    path \in DOMAIN b.ids /\ b.nodes[b.ids[path]].kind = "dir"

\* id_for: the slot a path owns, minted on first sight.
IdFor(ids, path) ==
    IF path \in DOMAIN ids THEN ids
    ELSE [q \in DOMAIN ids \cup {path} |->
             IF q = path THEN Cardinality(DOMAIN ids) + 1 ELSE ids[q]]

Place(b, path, node) ==
    LET owned == IdFor(b.ids, path)
        id == owned[path]
        grown == IF id > Len(b.nodes) THEN Append(b.nodes, node)
                 ELSE [b.nodes EXCEPT ![id] = node]
    IN  [b EXCEPT !.ids = owned,
                  !.nodes = [grown EXCEPT ![owned[Parent(path)]].children = Append(@, id)]]

EnsurePrefix(b, prefix) ==
    LET up == b.ids[Parent(prefix)]
    IN  IF ~b.ok \/ IsDir(b, prefix) THEN b
        ELSE IF ChildNamed(b, up, Last(prefix)) # {} THEN Refuse(b)
        ELSE Place(b, prefix, Dir(Last(prefix), up))

\* ensure_dir, one prefix of the path at a time.
EnsureDir(b, path) ==
    LET upto[n \in 0..Len(path)] ==
            IF n = 0 THEN b ELSE EnsurePrefix(upto[n - 1], SubSeq(path, 1, n))
    IN  upto[Len(path)]

AddDir(b, path) ==
    IF ~b.ok THEN b ELSE IF ~Safe(path) THEN Refuse(b) ELSE EnsureDir(b, path)

\* A file at position `index`; a tombstone only holds its position.
AddFile(b, path, index) ==
    LET under == EnsureDir(b, Parent(path))
    IN  IF ~b.ok \/ path = Root THEN b
        ELSE IF ~Safe(path) THEN Refuse(b)
        ELSE IF ~under.ok THEN under
        ELSE IF ChildNamed(under, under.ids[Parent(path)], Last(path)) # {} THEN Refuse(under)
        ELSE Place(under, path, File(Last(path), index))

\* sort_children: every directory's children by name.
ByName(nodes, S) ==
    CHOOSE seq \in [1..Cardinality(S) -> S] :
        \A i, j \in 1..Cardinality(S) : i < j => nodes[seq[i]].name < nodes[seq[j]].name
SortChildren(nodes) ==
    [id \in DOMAIN nodes |-> [nodes[id] EXCEPT !.children = ByName(nodes, ToSet(@))]]

BuildTree(ids, manifest) ==
    LET dirs[n \in 0..Len(manifest.dirs)] ==
            IF n = 0 THEN Start(ids) ELSE AddDir(dirs[n - 1], manifest.dirs[n])
        files[n \in 0..Len(manifest.files)] ==
            IF n = 0 THEN dirs[Len(manifest.dirs)] ELSE AddFile(files[n - 1], manifest.files[n], n)
        b == files[Len(manifest.files)]
    IN  IF b.ok THEN [b EXCEPT !.nodes = SortChildren(@)] ELSE b

-----------------------------------------------------------------------------
(* The answers.  An answer is [status, id, entries, end].                    *)

NodeAt(nodes, id) == IF id \in DOMAIN nodes THEN nodes[id] ELSE Gone

\* node_at: a retired slot, or one past the table, is stale.
StatusOf(nodes, id) ==
    CASE id = 0 -> "NOENT"
      [] NodeAt(nodes, id).kind = "gone" -> "STALE"
      [] OTHER -> "OK"

DirStatus(nodes, id) ==
    IF StatusOf(nodes, id) = "OK" /\ nodes[id].kind # "dir" THEN "NOTDIR"
    ELSE StatusOf(nodes, id)

\* One probe of a binary search: what is left of where the name may be.
Probe(nodes, children, name, span) ==
    LET mid == (span.lo + span.hi) \div 2
        here == nodes[children[mid]].name
    IN  IF span.lo > span.hi THEN span
        ELSE IF here = name THEN [lo |-> mid, hi |-> mid]
        ELSE IF here < name THEN [span EXCEPT !.lo = mid + 1]
        ELSE [span EXCEPT !.hi = mid - 1]

\* Binary search over the children's names; 0 when there is none.
Find(nodes, children, name) ==
    LET span[n \in 0..Len(children)] ==
            IF n = 0 THEN [lo |-> 1, hi |-> Len(children)]
            ELSE Probe(nodes, children, name, span[n - 1])
        last == span[Len(children)]
    IN  IF last.lo > last.hi THEN 0 ELSE children[last.lo]

Lookup(nodes, dirid, name) ==
    LET status == DirStatus(nodes, dirid)
        found == Find(nodes, nodes[dirid].children, name)
    IN  IF status # "OK" THEN [status |-> status, id |-> 0]
        ELSE IF found = 0 THEN [status |-> "NOENT", id |-> 0]
        ELSE [status |-> "OK", id |-> found]

\* One page after the cookie, which has to be a child still.
ReadDir(nodes, dirid, startAfter, maxEntries) ==
    LET children == nodes[dirid].children
        start == IF startAfter \notin ToSet(children) THEN 0
                 ELSE CHOOSE i \in DOMAIN children : children[i] = startAfter
        page == SubSeq(children, start + 1,
                       IF start + maxEntries < Len(children) THEN start + maxEntries
                       ELSE Len(children))
        none == [status |-> "BAD_COOKIE", entries |-> << >>, end |-> FALSE]
    IN  IF DirStatus(nodes, dirid) # "OK" THEN [none EXCEPT !.status = DirStatus(nodes, dirid)]
        ELSE IF startAfter # 0 /\ start = 0 THEN none
        ELSE [status |-> "OK", entries |-> page, end |-> start + Len(page) >= Len(children)]

\* read's first half: the manifest position behind a fileid, or why there is none.
ReadStatus(nodes, id) ==
    IF StatusOf(nodes, id) = "OK" /\ nodes[id].kind = "dir" THEN "ISDIR"
    ELSE StatusOf(nodes, id)
===============================================================================
