-------------------------------- MODULE Mtp --------------------------------
(***************************************************************************)
(* Media transfer: the MTP interface (usbip/classes/device/mtp.py, class   *)
(* MTP) over its object model (MtpStorage), and a host that runs           *)
(* transactions with it (usbip/classes/host/mtp.py, class MtpHost).        *)
(*                                                                         *)
(* The host waits for the answer to each of its URBs, and the interface's  *)
(* code runs in the serve thread, so a container and the whole of what it  *)
(* sets off are one step.  An OSError of a store ends the connection; a    *)
(* host may also leave at any point.  The next host attaches to what the   *)
(* interface then is.  The application may add files behind the model's    *)
(* back.                                                                   *)
(*                                                                         *)
(* Operations that only read are one operation, "list".  Data containers   *)
(* to the host, events and the payload of responses are left out.          *)
(***************************************************************************)
EXTENDS MtpStorage

CONSTANTS
    ReadOnly,    \* the stores whose read_only attribute is set
    Trees,       \* what the stores may hold at the start
    AppFiles,    \* <<store, path>>: a file the application may add, at any time
    MaxOps       \* bound: transactions

\* What the stores hold at the start are trees, of files and directories.
ASSUME MtpAssumption ==
    /\ ReadOnly \subseteq Stores /\ AppFiles \subseteq (Stores \X Paths) /\ MaxOps \in Nat
    /\ \A tree \in Trees :
          /\ IsFiniteSet(KeysOf(tree))
          /\ \A s \in Stores : \A p \in DOMAIN tree[s] :
                /\ p \in Paths
                /\ Front(p) # Root => Front(p) \in DOMAIN tree[s] /\ tree[s][Front(p)] = "dir"

VARIABLES
    st,        \* the stores and MtpStorage
    session,   \* MTP.session is not 0
    rx,        \* MTP._rx: the operation whose data is awaited, or NoRx
    target,    \* MTP._send_target: a handle, or 0
    inq,       \* the responses queued on bulk-IN
    host,      \* where the host is
    op,        \* the operation it runs ("info" when it runs none)
    tx,        \* its transaction id
    answered,  \* the transaction id of the last response it has read
    reserved,  \* history: the identity of what the last SendObjectInfo made
    escaped,   \* history: an OSError has ended a connection
    added      \* history: the application has added a file

vars == <<st, session, rx, target, inq, host, op, tx, answered, reserved, escaped, added>>

-----------------------------------------------------------------------------
(* Operations.                                                             *)

Op(kind, h, s, parent, name, dir) ==
    [kind |-> kind, h |-> h, s |-> s, parent |-> parent, name |-> name, dir |-> dir]

Simple(kind) == Op(kind, 0, 0, 0, 0, FALSE)

\* Handles a host may name: those it can have seen, and one it has not; and
\* the places: the root of a storage (0 is none of them) or a directory,
\* beside which the storage is ignored.
Handles == 1 .. st.next
Places  == {<<s, 0>> : s \in Stores \cup {0}} \cup {<<1, h>> : h \in Handles}

Operations ==
         {Simple(k) : k \in {"info", "open", "close", "list", "setprop", "sendobject"}}
    \cup {Op(k, h, 0, 0, 0, FALSE) : k \in {"delete", "partial", "truncate"}, h \in Handles}
    \cup {Op("rename", h, 0, 0, n, FALSE) : h \in Handles, n \in Names}
    \cup {Op(k, h, w[1], w[2], 0, FALSE) : k \in {"move", "copy"}, h \in Handles, w \in Places}
    \cup {Op("sendinfo", 0, w[1], w[2], n, d) : w \in Places, n \in Names, d \in BOOLEAN}

HasData(o) == o.kind \in {"sendinfo", "sendobject", "setprop", "rename", "partial"}

\* Bound: nothing comes to lie deeper than MaxDepth.
Height(h) ==
    LET o == st.objects[h]
    IN  Cardinality({Len(q) : q \in {r \in DOMAIN st.fs[o.si] : Under(o.path, r)}})

NotTooDeep(o) ==
    LET dir == Target(st, o.s, o.parent).path
    IN  CASE o.kind \in {"move", "copy"} /\ Known(st, o.h) -> Len(dir) + Height(o.h) <= MaxDepth
          [] o.kind = "sendinfo" -> Len(dir) < MaxDepth
          [] OTHER -> TRUE

-----------------------------------------------------------------------------
(* The interface.  Each operator is the state that a handler leaves.       *)

NoRx == [op |-> Simple("info"), tx |-> 0, on |-> FALSE]

Interface == [st |-> st, session |-> session, rx |-> rx, target |-> target, inq |-> inq]

Resp(d, t, rc) == [d EXCEPT !.inq = Append(@, [tx |-> t, rc |-> rc])]

\* The response comes last, and not at all when the store raises.
Done(d, t, after) ==
    IF after.raised THEN [d EXCEPT !.st = after] ELSE Resp([d EXCEPT !.st = after], t, "ok")

BeginRx(d, t, o) == [d EXCEPT !.rx = [op |-> o, tx |-> t, on |-> TRUE]]

\* MtpStorage.read_only.
IsReadOnly == 1 \in ReadOnly

\* move and copy: where an object named as it is comes to lie.
Landing(d, o) == Append(Target(d.st, o.s, o.parent).path, Last(d.st.objects[o.h].path))

\* _dispatch, with a session.
DispatchInSession(d, t, o) ==
    LET where == Target(d.st, o.s, o.parent)
    IN  CASE o.kind = "open" -> Resp(d, t, "already open")
          [] o.kind = "close" -> Resp([d EXCEPT !.session = FALSE], t, "ok")
          [] o.kind \in {"info", "list"} -> Resp(d, t, "ok")
          [] o.kind = "setprop" -> BeginRx(d, t, o)
          [] o.kind \in {"delete", "sendinfo", "sendobject", "rename", "move", "copy",
                         "partial", "truncate"} /\ IsReadOnly -> Resp(d, t, "read only")
          [] o.kind = "delete" /\ ~IsReadOnly ->
               IF MayDelete(d.st, o.h) THEN Done(d, t, Delete(d.st, o.h))
               ELSE Resp(d, t, "invalid handle")
          [] o.kind \in {"sendinfo", "rename"} /\ ~IsReadOnly -> BeginRx(d, t, o)
          [] o.kind = "sendobject" /\ ~IsReadOnly ->
               IF d.target = 0 THEN Resp(d, t, "no object info") ELSE BeginRx(d, t, o)
          [] o.kind \in {"move", "copy"} /\ ~IsReadOnly ->
               IF ~Known(d.st, o.h) THEN Resp(d, t, "invalid handle")
               ELSE IF where = NoDir THEN Resp(d, t, "invalid parent")
               ELSE IF o.kind = "copy"
               THEN Done(d, t, Copy(d.st, o.h, where.si, Landing(d, o)))
               ELSE IF CanMove(d.st, o.h, where.si, Landing(d, o))
               THEN Done(d, t, Move(d.st, o.h, where.si, Landing(d, o)))
               ELSE Resp(d, t, "general error")
          [] o.kind \in {"partial", "truncate"} /\ ~IsReadOnly ->
               IF ~KnownFile(d.st, o.h) THEN Resp(d, t, "invalid handle")
               ELSE IF o.kind = "partial" THEN BeginRx(d, t, o)
               ELSE Done(d, t, EditFile(d.st, o.h, "cut"))

Dispatch(d, t, o) ==
    IF d.session THEN DispatchInSession(d, t, o)
    ELSE CASE o.kind = "info" -> Resp(d, t, "ok")
           [] o.kind = "open" -> Resp([d EXCEPT !.session = TRUE], t, "ok")
           [] OTHER -> Resp(d, t, "no session")

\* SendObject uses the reservation up.
TargetTaken(d) == [d EXCEPT !.target = 0]

\* What the bytes of a payload make of a file.
Content(payload) ==
    CASE payload = "data" -> "new" [] payload = "nothing" -> "empty" [] OTHER -> "garbage"

\* _recv_object_info: a directory is complete, a file waits for SendObject.
RecvObjectInfo(d, t, o, payload) ==
    LET where == Target(d.st, o.s, o.parent)
        made  == IF o.dir THEN MakeDir(d.st, where.si, where.path, o.name)
                          ELSE MakeFile(d.st, where.si, where.path, o.name)
    IN  IF payload # "data" THEN Resp(d, t, "general error")
        ELSE IF where = NoDir THEN Resp(d, t, "invalid parent")
        ELSE IF made.raised THEN Done(d, t, made)
        ELSE Done([d EXCEPT !.target = IF o.dir THEN 0
                                       ELSE HandleAt(made, where.si, Append(where.path, o.name))],
                  t, made)

\* _recv_object.
RecvObject(d, t, payload) ==
    IF ~Known(d.st, d.target) THEN Resp(TargetTaken(d), t, "no object info")
    ELSE Done(TargetTaken(d), t, WriteFile(d.st, d.target, Content(payload)))

\* _recv_set_object_prop: a name cannot be parsed from an empty payload; of
\* the parameters of a command, a handle reads as an empty name, and the id of
\* a storage or of a property as one that sorts last.
RecvName(d, t, o, payload) ==
    LET name == IF payload = "a name" THEN CHOOSE n \in Names : \A m \in Names : m <= n
                                       ELSE o.name
        to == Append(Front(d.st.objects[o.h].path), name)
        si == d.st.objects[o.h].si
    IN  IF ~Known(d.st, o.h) THEN Resp(d, t, "invalid handle")
        ELSE IF payload = "nothing" THEN Done(d, t, Raise(d.st))
        ELSE IF payload # "no name" /\ CanMove(d.st, o.h, si, to)
        THEN Done(d, t, Move(d.st, o.h, si, to))
        ELSE Resp(d, t, "general error")

\* _recv_send_partial.
RecvPartial(d, t, o, payload) ==
    IF ~KnownFile(d.st, o.h) THEN Resp(d, t, "invalid handle")
    ELSE LET f == d.st.objects[o.h]
             was == IF IsFile(d.st, f.si, f.path) THEN d.st.fs[f.si][f.path].data ELSE "none"
         IN  Done(d, t, EditFile(d.st, o.h, CASE payload = "data" -> "patched"
                                              [] payload = "nothing" -> was
                                              [] OTHER -> "garbage"))

\* _complete_rx.
CompleteRx(d, payload) ==
    LET o  == d.rx.op
        t  == d.rx.tx
        d1 == [d EXCEPT !.rx = NoRx]
    IN  CASE o.kind = "sendinfo"   -> RecvObjectInfo(d1, t, o, payload)
          [] o.kind = "sendobject" -> RecvObject(d1, t, payload)
          [] o.kind = "setprop"    -> Resp(d1, t, "ok")
          [] o.kind = "rename"     -> RecvName(d1, t, o, payload)
          [] o.kind = "partial"    -> RecvPartial(d1, t, o, payload)

\* on_out with a command container: it is data when data is awaited.
Params(o) ==
    CASE o.kind \in {"info", "close", "list", "sendobject"} -> "nothing"
      [] o.kind = "setprop" \/ (o.kind = "sendinfo" /\ o.s \in Stores) -> "a name"
      [] OTHER -> "no name"
OnCommand(d, t, o) == IF d.rx.on THEN CompleteRx(d, Params(o)) ELSE Dispatch(d, t, o)

\* on_out with a data container: it is a command when none is awaited, with
\* the operation's code and its payload for parameters.  (The bound: the
\* payload's first word is no handle.)
OnData(d, t, o) ==
    IF d.rx.on THEN CompleteRx(d, "data") ELSE Dispatch(d, t, [o EXCEPT !.h = 0])

-----------------------------------------------------------------------------
Plant(tree) ==
    LET Nth(k) == Rank(KeysOf(tree), k) + 1
    IN  [fs |-> [s \in Stores |-> [p \in DOMAIN tree[s] |->
                    [dir |-> tree[s][p] = "dir", data |-> tree[s][p], id |-> Nth(<<s, p>>)]]],
         handleOf |-> <<>>, objects |-> <<>>, next |-> 1, born |-> Cardinality(KeysOf(tree)) + 1,
         raised |-> FALSE]

Init ==
    /\ \E tree \in Trees : st = Rescan(Plant(tree))
    /\ session = FALSE
    /\ rx = NoRx
    /\ target = 0
    /\ inq = <<>>
    /\ host = "idle"
    /\ op = Simple("info")
    /\ tx = 0
    /\ answered = 0
    /\ reserved = 0
    /\ escaped = FALSE
    /\ added = FALSE

\* What SendObjectInfo has made, when it has.
MadeBy(d) ==
    IF rx.on /\ rx.op.kind = "sendinfo" /\ ~d.st.raised /\ d.target # 0 /\ Last(d.inq).rc = "ok"
    THEN LET o == d.st.objects[d.target] IN d.st.fs[o.si][o.path].id
    ELSE reserved

\* The handler is through: an OSError has closed the socket.
Becomes(d, next) ==
    /\ st' = [d.st EXCEPT !.raised = FALSE]
    /\ session' = d.session /\ rx' = d.rx /\ target' = d.target
    /\ inq' = IF d.st.raised THEN <<>> ELSE d.inq
    /\ host' = IF d.st.raised THEN "gone" ELSE next
    /\ escaped' = (escaped \/ d.st.raised)
    /\ reserved' = MadeBy(d)

\* transaction: the command ...
SendCommand(o) ==
    /\ host = "idle"
    /\ tx < MaxOps /\ NotTooDeep(o)
    /\ tx' = tx + 1
    /\ op' = o
    /\ Becomes(OnCommand(Interface, tx', o), IF HasData(o) THEN "data" ELSE "response")
    /\ UNCHANGED <<answered, added>>

\* ... the data, whatever the device has answered meanwhile ...
SendData ==
    /\ host = "data"
    /\ Becomes(OnData(Interface, tx, op), "response")
    /\ UNCHANGED <<op, tx, answered, added>>

\* ... and the response; its transaction id is not looked at.
Receive ==
    /\ host = "response" /\ inq # <<>>
    /\ inq' = Tail(inq)
    /\ answered' = Head(inq).tx
    /\ host' = "idle"
    /\ op' = Simple("info")
    /\ UNCHANGED <<st, session, rx, target, tx, reserved, escaped, added>>

\* What is queued for it is flushed when the next host attaches.
Leave ==
    /\ host # "gone"
    /\ host' = "gone"
    /\ op' = Simple("info")
    /\ inq' = <<>>
    /\ answered' = tx
    /\ UNCHANGED <<st, session, rx, target, tx, reserved, escaped, added>>

\* Another host attaches: MTP has no on_reset.
Attach ==
    /\ host = "gone"
    /\ host' = "idle"
    /\ UNCHANGED <<st, session, rx, target, inq, op, tx, answered, reserved, escaped, added>>

\* The application, or its user, adds a file to a store.
AppAdds(s, p) ==
    /\ ~added
    /\ ~Exists(st, s, p) /\ IsDir(st, s, Front(p))
    /\ st' = New(st, s, p, FALSE, "added")
    /\ added' = TRUE
    /\ UNCHANGED <<session, rx, target, inq, host, op, tx, answered, reserved, escaped>>

Next ==
    \/ \E o \in Operations : SendCommand(o)
    \/ SendData
    \/ Receive
    \/ Leave
    \/ Attach
    \/ \E f \in AppFiles : AppAdds(f[1], f[2])

Spec == Init /\ [][Next]_vars

-----------------------------------------------------------------------------
(* Properties.                                                             *)

\* What files hold: what they held at the start, and what is made of them.
\* (A directory holds "dir" or "none".)
Contents ==
         {"none", "empty", "new", "cut", "patched", "garbage", "added"}
    \cup UNION {{tree[k[1]][k[2]] : k \in KeysOf(tree)} : tree \in Trees}

Node == [dir : BOOLEAN, data : Contents, id : Nat]

\* Every variable has its type; a file system is a tree.
TypeOK ==
    /\ DOMAIN st.fs = Stores /\ ~st.raised
    /\ \A s \in Stores : \A p \in DOMAIN st.fs[s] :
          p \in Paths /\ st.fs[s][p] \in Node /\ IsDir(st, s, Front(p))
    /\ \A k \in DOMAIN st.handleOf : st.handleOf[k] \in 1 .. (st.next - 1)
    /\ session \in BOOLEAN /\ escaped \in BOOLEAN /\ added \in BOOLEAN
    /\ target \in 0 .. (st.next - 1)
    /\ host \in {"idle", "data", "response", "gone"}
    /\ tx \in 0 .. MaxOps /\ answered \in 0 .. MaxOps

\* Handles and objects name each other: no two paths have one handle, no
\* handle is left for a path that is gone, the parent of every object is an
\* object that is a directory, and, unless a store has failed or the
\* application has added files, the objects are what is in the stores.
HandlesMatchObjects ==
    /\ escaped \/ added \/ DOMAIN st.handleOf = Alive(st)
    /\ DOMAIN st.handleOf = {<<st.objects[h].si, st.objects[h].path>> : h \in DOMAIN st.objects}
    /\ \A h \in DOMAIN st.objects :
          LET o == st.objects[h]
          IN  /\ st.handleOf[<<o.si, o.path>>] = h
              /\ o.path \in Paths
              /\ Len(o.path) > 1 => <<o.si, Front(o.path)>> \in DOMAIN st.handleOf
                                    /\ st.objects[st.handleOf[<<o.si, Front(o.path)>>]].dir

\* What a handle names.
Identity(s, h) == s.fs[s.objects[h].si][s.objects[h].path].id
Named(s) == {h \in DOMAIN s.objects : Exists(s, s.objects[h].si, s.objects[h].path)}
Ids(s) == UNION {{s.fs[i][p].id : p \in DOMAIN s.fs[i]} : i \in Stores}

\* Handles are stable: as long as a file or directory exists its handle names
\* it, through every rename and move within a store; a handle that has not
\* been given yet is a new one; and SendObject fills in what the last
\* SendObjectInfo made, whatever comes between, or nothing.
HandlesStable ==
    [][/\ \A h \in Named(st) :
             /\ Identity(st, h) \in Ids(st') => h \in Named(st')
             /\ h \in Named(st') => Identity(st', h) = Identity(st, h)
       /\ \A h \in DOMAIN st'.objects : h \in DOMAIN st.objects \/ h >= st.next
       /\ rx.on /\ rx.op.kind = "sendobject" =>
             \A s \in Stores : \A p \in DOMAIN st.fs[s] \cap DOMAIN st'.fs[s] :
                 st'.fs[s][p].data # st.fs[s][p].data => st.fs[s][p].id = reserved]_vars

\* The file at q, which belongs to what is moved to `new`, is where it was or
\* where it should land, with its content.
StaysOrLands(src, q, s, new) ==
    LET HasIt(i, p) == IsFile(st', i, p) /\ st'.fs[i][p].data = st.fs[src.si][q].data
    IN  HasIt(src.si, q) \/ HasIt(s, Moved(q, src.path, new))

\* This step runs the operation o, a move of an object the model knows.
Moves(o) == tx' # tx /\ o.kind = "move" /\ Known(st, o.h) /\ ~rx.on

\* The files below src in its store.
FilesBelow(src) == {q \in DOMAIN st.fs[src.si] : Under(src.path, q) /\ IsFile(st, src.si, q)}

\* A move loses no file: each one below what is moved is where it was or
\* where it should land, with its content.
MoveLosesNothing ==
    [][\A o \in {op'} : Moves(o) =>
          \A q \in FilesBelow(st.objects[o.h]) :
              StaysOrLands(st.objects[o.h], q, Target(st, o.s, o.parent).si,
                           Landing(Interface, o))]_vars

\* A move loses no file that the model has in its snapshot, and within a store
\* no file at all, whatever the application has added and whatever stores have
\* failed before, even if the store fails half way.  (Files that the snapshot
\* does not have are lost by a move to another store: MoveLosesNothing.)
MoveKeepsListed ==
    [][\A o \in {op'} : Moves(o) =>
          LET src   == st.objects[o.h]
              where == Target(st, o.s, o.parent)
          IN  \A q \in FilesBelow(src) :
                  <<src.si, q>> \in DOMAIN st.handleOf \/ where.si = src.si =>
                      StaysOrLands(src, q, where.si, Landing(Interface, o))]_vars

\* Command, data, response: the response that a host reads is that of the
\* transaction it runs.
InStep == host = "idle" => answered = tx
=============================================================================
