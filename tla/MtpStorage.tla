----------------------------- MODULE MtpStorage -----------------------------
(***************************************************************************)
(* The MTP object model (usbip/classes/device/mtp.py, class MtpStorage)    *)
(* over its stores, directories as the FilesystemStore of                  *)
(* examples/mtp_device.py keeps them on the file system.                   *)
(*                                                                         *)
(* A state is a record: the trees, the handles the model has given to      *)
(* paths, its snapshot of the objects, the next handle; `born` counts the  *)
(* files and directories ever made, so that each has an identity of its    *)
(* own whatever it is called; `raised` says that the backend has raised an *)
(* OSError that the model does not catch.                                  *)
(*                                                                         *)
(* A path is a sequence of names; a file's content is one of a few values. *)
(***************************************************************************)
EXTENDS Integers, Sequences, FiniteSets, SequencesExt

CONSTANTS
    Stores,    \* the storages, 1 .. n
    Names,     \* file names, 1 .. m in the order in which they sort
    MaxDepth   \* bound: the depth of the trees

\* There is a first store, and a name that sorts last.
ASSUME StorageAssumption ==
    /\ Stores \subseteq Nat \ {0} /\ 1 \in Stores
    /\ Names \subseteq Nat \ {0} /\ \E n \in Names : \A m \in Names : m <= n
    /\ MaxDepth \in Nat \ {0}

Root   == <<>>
Paths  == UNION {[1 .. n -> Names] : n \in 1 .. MaxDepth}
Under(p, q) == IsPrefix(p, q)

\* q with its beginning p replaced by r.
Moved(q, p, r) == r \o SubSeq(q, Len(p) + 1, Len(q))

\* Parents before their children, siblings in the order of their names.
WalkedBefore(p, q) ==
    \/ IsStrictPrefix(p, q)
    \/ \E i \in 1 .. Len(p) : /\ i <= Len(q) /\ p[i] < q[i]
                              /\ SubSeq(p, 1, i - 1) = SubSeq(q, 1, i - 1)

KeyBefore(j, k) == j[1] < k[1] \/ (j[1] = k[1] /\ WalkedBefore(j[2], k[2]))

\* How many of K the walk meets before k.
Rank(K, k) == Cardinality({j \in K : KeyBefore(j, k)})

-----------------------------------------------------------------------------
(* A store.                                                                *)

Exists(st, s, p) == p \in DOMAIN st.fs[s]
IsDir(st, s, p)  == p = Root \/ (Exists(st, s, p) /\ st.fs[s][p].dir)
IsFile(st, s, p) == Exists(st, s, p) /\ ~st.fs[s][p].dir

Raise(st) == [st EXCEPT !.raised = TRUE]

Put(st, s, p, node) ==
    [st EXCEPT !.fs[s] = [q \in DOMAIN @ \cup {p} |-> IF q = p THEN node ELSE @[q]]]

New(st, s, p, dir, data) ==
    [Put(st, s, p, [dir |-> dir, data |-> data, id |-> st.born]) EXCEPT !.born = @ + 1]

\* open(.., "wb"): a file that exists is overwritten.
Write(st, s, p, data) ==
    IF IsFile(st, s, p) THEN [st EXCEPT !.fs[s][p].data = data]
    ELSE IF ~Exists(st, s, p) /\ IsDir(st, s, Front(p)) THEN New(st, s, p, FALSE, data)
    ELSE Raise(st)

\* makedirs(.., exist_ok=True), below a directory.
Mkdir(st, s, p) ==
    IF IsDir(st, s, p) THEN st
    ELSE IF ~Exists(st, s, p) /\ IsDir(st, s, Front(p)) THEN New(st, s, p, TRUE, "none")
    ELSE Raise(st)

\* rmtree, or remove.
Removed(st, s, p) ==
    [st EXCEPT !.fs[s] = [q \in {r \in DOMAIN @ : ~Under(p, r)} |-> @[q]]]

\* os.rename.
MayRename(st, s, old, new) ==
    /\ Exists(st, s, old) /\ IsDir(st, s, Front(new)) /\ ~IsStrictPrefix(old, new)
    /\ Exists(st, s, new) =>
          /\ IsDir(st, s, new) = IsDir(st, s, old)
          /\ ~\E q \in DOMAIN st.fs[s] : IsStrictPrefix(new, q)

Renamed(st, s, old, new) ==
    LET was  == DOMAIN st.fs[s]
        kept == {q \in was : ~Under(old, q) /\ q # new}
        now  == {Moved(q, old, new) : q \in {r \in was : Under(old, r)}}
    IN  [st EXCEPT !.fs[s] =
            [q \in kept \cup now |-> IF q \in now THEN @[Moved(q, new, old)] ELSE @[q]]]

-----------------------------------------------------------------------------
(* Handles.                                                                *)

KeysOf(fs) == UNION {{<<s, p>> : p \in DOMAIN fs[s]} : s \in Stores}
Alive(st)  == KeysOf(st.fs)

\* _handle_for: new paths are given the next handles, in the order of the walk.
HandleFor(st, rank) == st.next + rank

\* Mutant: the handles of paths that are gone are kept.
KeepHandles(st, given) == given @@ st.handleOf

\* _handle_of keeps the paths that are alive.
ForgetHandles(st, given) == given

\* rescan.
Rescan(st) ==
    LET fresh   == Alive(st) \ DOMAIN st.handleOf
        given   == [k \in Alive(st) |-> IF k \in fresh THEN HandleFor(st, Rank(fresh, k))
                                                       ELSE st.handleOf[k]]
        ObjectOf(h) == LET k == CHOOSE k \in Alive(st) : given[k] = h
                       IN  [si |-> k[1], path |-> k[2], dir |-> st.fs[k[1]][k[2]].dir]
    IN  [st EXCEPT !.handleOf = ForgetHandles(st, given),
                   !.objects = [h \in {given[k] : k \in Alive(st)} |-> ObjectOf(h)],
                   !.next = @ + Cardinality(fresh)]

Known(st, h)     == h \in DOMAIN st.objects
KnownFile(st, h) == Known(st, h) /\ ~st.objects[h].dir

HandleAt(st, s, p) == IF <<s, p>> \in DOMAIN st.handleOf THEN st.handleOf[<<s, p>>] ELSE 0

\* target: the directory that (storage, parent) names; parent 0 is the root
\* of the storage, or of the first one when there is no such storage.
NoDir == [si |-> 0, path |-> Root]
Target(st, storage, parent) ==
    IF parent = 0 THEN [si |-> IF storage \in Stores THEN storage ELSE 1, path |-> Root]
    ELSE IF Known(st, parent) /\ st.objects[parent].dir
    THEN [si |-> st.objects[parent].si, path |-> st.objects[parent].path]
    ELSE NoDir

-----------------------------------------------------------------------------
(* Operations.  One that raises leaves the snapshot as it was.             *)

Rescanned(st) == IF st.raised THEN st ELSE Rescan(st)

MakeFile(st, s, dir, name) == Rescanned(Write(st, s, Append(dir, name), "empty"))
MakeDir(st, s, dir, name)  == Rescanned(Mkdir(st, s, Append(dir, name)))

\* write_file, pwrite and truncate; the last two want the file to be there.
WriteFile(st, h, data) == Rescanned(Write(st, st.objects[h].si, st.objects[h].path, data))

EditFile(st, h, data) ==
    LET o == st.objects[h]
    IN  IF IsFile(st, o.si, o.path) THEN WriteFile(st, h, data) ELSE Raise(st)

\* delete catches what the backend raises.
MayDelete(st, h) == Known(st, h) /\ Exists(st, st.objects[h].si, st.objects[h].path)
Delete(st, h)    == Rescan(Removed(st, st.objects[h].si, st.objects[h].path))

\* The objects of the snapshot at and below p.
Below(st, s, p) == {k \in DOMAIN st.handleOf : k[1] = s /\ Under(p, k[2])}

\* _copy_tree of one of them, the object at k below old, to its place below new.
CopyOne(st, cur, k, old, s, new) ==
    LET to == Moved(k[2], old, new)
    IN  IF cur.raised THEN cur
        ELSE IF st.objects[st.handleOf[k]].dir THEN Mkdir(cur, s, to)
        ELSE IF IsFile(cur, k[1], k[2]) THEN Write(cur, s, to, cur.fs[k[1]][k[2]].data)
        ELSE Raise(cur)

\* _copy_tree: parents first, until one raises.
CopyTree(st, h, s, new) ==
    LET o      == st.objects[h]
        tree   == Below(st, o.si, o.path)
        Nth(i) == CHOOSE k \in tree : Rank(tree, k) = i - 1
        copied[i \in 0 .. Cardinality(tree)] ==
            IF i = 0 THEN st ELSE CopyOne(st, copied[i - 1], Nth(i), o.path, s, new)
    IN  copied[Cardinality(tree)]

\* Mutant: a copy that failed is taken for done.
GoesOnRegardless(copied) == TRUE

\* The copy raised nothing: the source may go.
CopyIsDone(copied) == ~copied.raised

Copy(st, h, s, new) == Rescanned(CopyTree(st, h, s, new))

\* Mutant: the handles stay with the paths.
HandlesStay(st, s, old, new) == st.handleOf

\* The handles move with the objects below `old`.
HandlesMove(st, s, old, new) ==
    LET below  == Below(st, s, old)
        landed == {<<s, Moved(k[2], old, new)>> : k \in below}
    IN  [k \in (DOMAIN st.handleOf \ below) \cup landed |->
            IF k \in landed THEN st.handleOf[<<s, Moved(k[2], new, old)>>] ELSE st.handleOf[k]]

\* rename: a move to another store is a copy and a removal.
CanMove(st, h, s, new) ==
    LET o == st.objects[h]
    IN  s # o.si \/ new = o.path \/ MayRename(st, s, o.path, new)

Move(st, h, s, new) ==
    LET o == st.objects[h]
        copied == CopyTree(st, h, s, new)
    IN  IF s # o.si
        THEN IF CopyIsDone(copied) THEN Rescan(Removed(copied, o.si, o.path)) ELSE copied
        ELSE IF new = o.path THEN st
        ELSE Rescan([Renamed(st, s, o.path, new) EXCEPT
                        !.handleOf = HandlesMove(st, s, o.path, new)])
=============================================================================
